---- MODULE Spec2Model ----
(***************************************************************************)
(* Verification model of the multi-model generation gateway:               *)
(*   - ModelManager (model catalog and client cache),                      *)
(*   - BaseModelClient.makeStreamingRequest (SSE transport) and the        *)
(*     adapters' generateContentStream loops that consume it,               *)
(*   - the useMultiModelStream hook (submitQuery / abortStreaming and the  *)
(*     streaming tool-call accumulation inside submitQuery).               *)
(* Each subsystem has its own specification (SpecRegistry, SpecHook,       *)
(* SpecAccum, SpecTransport); the variables of the other subsystems stay   *)
(* at their initial values.                                                *)
(***************************************************************************)
EXTENDS Integers, Sequences, FiniteSets, TLC

VARIABLES
    \* ---- ModelManager -------------------------------------------------
    models,        \* ModelManager.models : Map from model name to ModelConfig
    clients,       \* ModelManager.clients: client key -> adapter instance
    adapters,      \* every adapter instance constructed so far (heap), each with
                   \* the frame of the createClient call that constructed it
    lastCall,      \* the createClient invocation that returned or threw last
    returned,      \* <<key, adapter>> pairs handed to callers since the last clear
    \* ---- useMultiModelStream -----------------------------------------
    streamingState,       \* useState<StreamingState>
    abortController,      \* abortController.current (0 = null, else controller id)
    controllers,          \* controller id -> signal.aborted
    currentContent,       \* currentContent.current
    pendingHistoryItem,   \* useState pendingHistoryItem
    hasActiveToolCalls,   \* hasActiveToolCalls.current
    history,              \* items passed to addItem, in order
    initError,            \* useState initError
    toolCalls,            \* useReactToolScheduler: requests scheduled, not completed
    queries,              \* every submitQuery invocation, with its position
    \* ---- transport + adapter stream loop -----------------------------
    response,      \* what `await fetch(...)` of makeStreamingRequest gave
    timer,         \* the setTimeout(() => controller.abort(), 30000) timer
    body,          \* network reads of the response body received so far
    buffer,        \* makeStreamingRequest: let buffer
    lines,         \* makeStreamingRequest: lines of the current read not yet handled
    tState,        \* position of the makeStreamingRequest generator
    tElems,        \* elements the generator has yielded
    aState,        \* position of the adapter's generateContentStream
    aChunks,       \* chunks the adapter has yielded to its caller
    lineLog,       \* complete lines the generator has classified, in order
    \* ---- vendor adapters ---------------------------------------------
    adapterCall,   \* the adapter operation in progress or last ended
    \* ---- SmartToolFilter, ConfigBuilder ------------------------------
    filterCall,    \* analyzeUserInput / filterTools: input, analysis, result
    builder        \* a ConfigBuilder: its config and the build() in progress

registryVars == <<models, clients, adapters, lastCall, returned>>
hookVars == <<streamingState, abortController, controllers, currentContent,
              pendingHistoryItem, hasActiveToolCalls, history, initError,
              toolCalls, queries>>
transportVars == <<response, timer, body, buffer, lines, tState, tElems, aState, aChunks, lineLog>>
adapterVars == <<adapterCall>>
filterVars == <<filterCall>>
builderVars == <<builder>>
vars == <<registryVars, hookVars, transportVars, adapterVars, filterVars, builderVars>>


(***************************************************************************)
(*                              ModelManager                               *)
(***************************************************************************)

\* Bound: number of adapter instances constructed in one behaviour.
MaxAdapters == 2

\* Model names used by callers: two catalogued ones and one that is not.
ModelNames == {"gpt-4", "deepseek-chat", "my-model"}

ModelConfig(provider, model) == [provider |-> provider, model |-> model]

\* registerDefaultModels(): one catalogued model whose provider createClient
\* has a case for (DeepSeek) and one whose provider it has none for (OpenAI).
DefaultModels ==
    [m \in {"gpt-4", "deepseek-chat"} |->
        IF m = "gpt-4" THEN ModelConfig("openai-gpt", m)
                       ELSE ModelConfig("deepseek", m)]

\* The value of `this.models.get(name)` for a name that is not a key.
Undefined == ModelConfig("undefined", "undefined")

\* Configurations a caller registers later: a new model, and a re-registration
\* of a catalogued name under another provider.
RegisterableConfigs ==
    { ModelConfig("qwen", "my-model"),
      ModelConfig("qwen", "deepseek-chat") }

\* Providers for which createClient's switch has a case.
SupportedProviders == {"google-gemini", "anthropic-claude", "deepseek", "qwen"}

\* Auth identities handed to createClient (AuthConfig: provider, method, apiKey).
AuthConfigs ==
    { [provider |-> "deepseek", method |-> "deepseek-api-key", apiKey |-> "k1"],
      [provider |-> "deepseek", method |-> "deepseek-api-key", apiKey |-> "k2"] }

\* const clientKey = `${modelName}-${authConfig.provider}-${authConfig.method}`
ClientKey(modelName, authConfig) ==
    modelName \o "-" \o authConfig.provider \o "-" \o authConfig.method

\* getAvailableModels: providerMap, from AuthProvider to ModelProvider
\* ("custom" has no entry).
AuthProviders == {"google", "anthropic", "openai", "azure", "deepseek", "qwen", "custom"}
ProviderMap(authProvider) ==
    CASE authProvider = "google" -> "google-gemini"
      [] authProvider = "anthropic" -> "anthropic-claude"
      [] authProvider = "openai" -> "openai-gpt"
      [] authProvider = "azure" -> "azure-openai"
      [] authProvider = "deepseek" -> "deepseek"
      [] authProvider = "qwen" -> "qwen"
      [] OTHER -> "undefined"

\* getAvailableModels(authConfig), as the set of the model names: the
\* catalogued models of the provider the auth provider maps to.
GetAvailableModels(catalog, authProvider) ==
    IF ProviderMap(authProvider) = "undefined"
    THEN {}
    ELSE { m \in DOMAIN catalog : catalog[m].provider = ProviderMap(authProvider) }

\* A plausible slip: an unknown name falls back to a default configuration.
GetModelFallback(modelName) ==
    IF modelName \in DOMAIN models
    THEN models[modelName]
    ELSE ModelConfig("deepseek", "deepseek-chat")

\* getModel(modelName): this.models.get(modelName)
GetModel(modelName) ==
    IF modelName \in DOMAIN models THEN models[modelName] ELSE Undefined

\* A plausible slip: the adapter is cached whatever validate() returned.
CacheAfterValidateAlways(key, client, isValid) == (key :> client) @@ clients

\* createClient after `await client.validate()`: the cache after the call.
CacheAfterValidate(key, client, isValid) ==
    IF isValid THEN (key :> client) @@ clients ELSE clients

NoAuth == [provider |-> "", method |-> "", apiKey |-> ""]

\* The record of a createClient invocation that has returned or thrown.
NoCall ==
    [ modelName |-> "", authConfig |-> NoAuth, key |-> "", pc |-> "none",
      client |-> 0, error |-> "", constructed |-> FALSE, netRequests |-> 0,
      known |-> FALSE, seen |-> {} ]

\* Adapters already handed out for clientKey since the last clear.
SeenFor(key) == { r[2] : r \in { p \in returned : p[1] = key } }

Completed(modelName, authConfig, pc, client, error, constructed, net, known, seen) ==
    [ modelName   |-> modelName,
      authConfig  |-> authConfig,
      key         |-> ClientKey(modelName, authConfig),
      pc          |-> pc,            \* "returned" | "threw"
      client      |-> client,        \* adapter id, 0 = none
      error       |-> error,
      constructed |-> constructed,   \* this call ran `new ...ModelClient`
      netRequests |-> net,           \* network requests issued by this call
      known       |-> known,         \* the model was in the catalog at the call
      seen        |-> seen ]         \* SeenFor(key) at the call

\* Adapters whose constructing createClient call is suspended at
\* `await client.validate()`.
InFlight == { i \in DOMAIN adapters : adapters[i].valid = "pending" }

\* registerModel(config): this.models.set(config.model, config)
RegisterModel(config) ==
    /\ models' = (config.model :> config) @@ models
    /\ UNCHANGED <<clients, adapters, lastCall, returned>>

\* createClient(modelName, authConfig), from the call to its first await
\* (or to its return/throw when it never awaits).
CreateClient(modelName, authConfig) ==
    LET key == ClientKey(modelName, authConfig)
        modelConfig == GetModel(modelName)
        known == modelName \in DOMAIN models
    IN
    /\ IF key \in DOMAIN clients
       THEN \* cached client
            /\ lastCall' = Completed(modelName, authConfig, "returned", clients[key],
                                     "", FALSE, 0, known, SeenFor(key))
            /\ returned' = returned \cup {<<key, clients[key]>>}
            /\ UNCHANGED <<clients, adapters>>
       ELSE IF modelConfig = Undefined
       THEN /\ lastCall' = Completed(modelName, authConfig, "threw", 0,
                                     "Unknown model", FALSE, 0, known, SeenFor(key))
            /\ UNCHANGED <<clients, adapters, returned>>
       ELSE IF modelConfig.provider \notin SupportedProviders
       THEN /\ lastCall' = Completed(modelName, authConfig, "threw", 0,
                                     "Unsupported model provider", FALSE, 0, known,
                                     SeenFor(key))
            /\ UNCHANGED <<clients, adapters, returned>>
       ELSE \* new XxxModelClient(modelConfig, authConfig); await client.validate()
            /\ Len(adapters) < MaxAdapters
            /\ adapters' = Append(adapters,
                   [ config |-> modelConfig, authConfig |-> authConfig,
                     valid |-> "pending", live |-> TRUE,
                     \* the suspended frame of the constructing call
                     modelName |-> modelName, key |-> key, seen |-> SeenFor(key) ])
            /\ UNCHANGED <<clients, returned, lastCall>>
    /\ UNCHANGED models

\* The continuation of createClient once validate() of adapter i has settled
\* with isValid.
ValidateReturn(i, isValid) ==
    LET frame == adapters[i] IN
    /\ i \in InFlight
    /\ adapters' = [adapters EXCEPT ![i].valid = IF isValid THEN "true" ELSE "false"]
    /\ clients' = CacheAfterValidate(frame.key, i, isValid)
    /\ IF isValid
       THEN /\ lastCall' = Completed(frame.modelName, frame.authConfig, "returned", i,
                                     "", TRUE, 1, TRUE, frame.seen)
            /\ returned' = returned \cup {<<frame.key, i>>}
       ELSE /\ lastCall' = Completed(frame.modelName, frame.authConfig, "threw", i,
                                     "Failed to validate model client", TRUE, 1, TRUE,
                                     frame.seen)
            /\ UNCHANGED returned
    /\ UNCHANGED models

\* clearClientCache(): this.clients.clear()
ClearClientCache ==
    /\ clients' = <<>>
    /\ returned' = {}
    /\ adapters' = [i \in DOMAIN adapters |-> [adapters[i] EXCEPT !.live = FALSE]]
    /\ UNCHANGED <<models, lastCall>>

(***************************************************************************)
(*            useMultiModelStream: streaming tool-call accumulation        *)
(***************************************************************************)

\* Text is a sequence of tokens; `+=` on strings is \o.  The tokens of
\* argument text are pieces of JSON source.
LB == "{\"x\":"
RB == "1}"
Digit == "7"

\* JSON.parse succeeds on text: over the tokens above the JSON documents are
\* the numbers 7, 77, ... and the objects {"x":1}, {"x":71}, ...
IsValidJSON(text) ==
    /\ text # <<>>
    /\ \/ \A i \in DOMAIN text : text[i] = Digit
       \/ /\ Len(text) >= 2
          /\ text[1] = LB
          /\ text[Len(text)] = RB
          /\ \A i \in 2 .. (Len(text) - 1) : text[i] = Digit

\* A tool call of delta.toolCalls as the adapters emit it: id, function.name
\* and function.arguments, each possibly undefined ("" / <<>>).
ToolCallFragment(id, name, arguments) ==
    [id |-> id, name |-> name, arguments |-> arguments]

\* A StreamingChunk as the adapters' transformStreamingChunk builds it:
\* choices[0].delta.content, choices[0].delta.toolCalls and
\* choices[0].finishReason.  No adapter sets choices[0].message, so that
\* field is always empty.
Chunk(content, deltaToolCalls, finishReason) ==
    [ content |-> content, toolCalls |-> deltaToolCalls, message |-> <<>>,
      finishReason |-> finishReason ]

\* Index of the record with this id in the Map (0 when toolCallsMap.has(id)
\* is false).  The Map is a sequence in insertion order.
IndexOf(map, id) ==
    IF \E i \in DOMAIN map : map[i].id = id
    THEN CHOOSE i \in DOMAIN map : map[i].id = id
    ELSE 0

\* A plausible slip: a fragment of an id already present replaces the text.
AccumulateFragmentReplacing(map, toolCall) ==
    IF toolCall.id # ""
    THEN IF IndexOf(map, toolCall.id) = 0
         THEN Append(map, toolCall)
         ELSE [map EXCEPT ![IndexOf(map, toolCall.id)] = toolCall]
    ELSE IF toolCall.arguments # <<>> /\ map # <<>>
         THEN [map EXCEPT ![Len(map)].arguments = @ \o toolCall.arguments]
         ELSE map

\* A plausible slip: a fragment without id goes to the record touched last
\* (the Map entry is re-inserted on every update, so it moves to the end).
AccumulateFragmentMoveToEnd(map, toolCall) ==
    LET i == IndexOf(map, toolCall.id)
        rest == [k \in 1 .. (Len(map) - 1) |-> IF k < i THEN map[k] ELSE map[k + 1]]
    IN
    IF toolCall.id # ""
    THEN IF i = 0
         THEN Append(map, toolCall)
         ELSE Append(rest,
                [ id |-> toolCall.id,
                  name |-> IF toolCall.name # "" THEN toolCall.name ELSE map[i].name,
                  arguments |-> map[i].arguments \o toolCall.arguments ])
    ELSE IF toolCall.arguments # <<>> /\ map # <<>>
         THEN [map EXCEPT ![Len(map)].arguments = @ \o toolCall.arguments]
         ELSE map

\* A plausible slip: the records are kept in an array, so every fragment
\* that carries an id opens a record.
AccumulateFragmentAlwaysAppending(map, toolCall) ==
    IF toolCall.id # ""
    THEN Append(map, toolCall)
    ELSE IF toolCall.arguments # <<>> /\ map # <<>>
         THEN [map EXCEPT ![Len(map)].arguments = @ \o toolCall.arguments]
         ELSE map

\* The body of `for (const toolCall of toolCalls)` over delta.toolCalls.
AccumulateFragment(map, toolCall) ==
    IF toolCall.id # ""
    THEN IF IndexOf(map, toolCall.id) = 0
         THEN \* toolCallsMap.set(id, {id, type, function: {name || '', arguments || ''}})
              Append(map, toolCall)
         ELSE \* existing.function.name = name; existing.function.arguments += arguments
              [map EXCEPT ![IndexOf(map, toolCall.id)] =
                  [ id |-> @.id,
                    name |-> IF toolCall.name # "" THEN toolCall.name ELSE @.name,
                    arguments |-> @.arguments \o toolCall.arguments ]]
    ELSE IF toolCall.arguments # <<>>
         THEN \* lastToolCall = Array.from(toolCallsMap.values()).pop()
              IF map # <<>>
              THEN [map EXCEPT ![Len(map)].arguments = @ \o toolCall.arguments]
              ELSE map
         ELSE map

RECURSIVE AccumulateDelta(_, _)
AccumulateDelta(map, deltaToolCalls) ==
    IF deltaToolCalls = <<>>
    THEN map
    ELSE AccumulateDelta(AccumulateFragment(map, Head(deltaToolCalls)),
                         Tail(deltaToolCalls))

\* The body of the loop over choice.message.toolCalls:
\* if (toolCall.id) toolCallsMap.set(toolCall.id, toolCall)
RECURSIVE AccumulateMessage(_, _)
AccumulateMessage(map, messageToolCalls) ==
    IF messageToolCalls = <<>>
    THEN map
    ELSE LET toolCall == Head(messageToolCalls)
             next == IF toolCall.id = ""
                     THEN map
                     ELSE IF IndexOf(map, toolCall.id) = 0
                          THEN Append(map, toolCall)
                          ELSE [map EXCEPT ![IndexOf(map, toolCall.id)] = toolCall]
         IN AccumulateMessage(next, Tail(messageToolCalls))

\* args of a tool-call request: {} when the text is empty, the parsed
\* document when JSON.parse succeeds, { content: text } when it throws.
ParseArgs(arguments) ==
    IF arguments = <<>>
    THEN [kind |-> "empty", text |-> <<>>]
    ELSE IF IsValidJSON(arguments)
         THEN [kind |-> "json", text |-> arguments]
         ELSE [kind |-> "content", text |-> arguments]

\* A plausible slip: a record whose text does not parse gets no request.
ToolCallRequestsDroppingInvalid(map) ==
    LET ok == SelectSeq(map, LAMBDA tc : tc.arguments = <<>> \/ IsValidJSON(tc.arguments))
    IN [ i \in DOMAIN ok |->
           [ callId |-> ok[i].id,
             name |-> IF ok[i].name # "" THEN ok[i].name ELSE "unknown",
             args |-> ParseArgs(ok[i].arguments),
             isClientInitiated |-> FALSE ] ]

\* const toolCallRequests = pendingToolCalls.map(toolCall => ...)
ToolCallRequests(map) ==
    [ i \in DOMAIN map |->
        [ callId |-> map[i].id,
          name |-> IF map[i].name # "" THEN map[i].name ELSE "unknown",
          args |-> ParseArgs(map[i].arguments),
          isClientInitiated |-> FALSE ] ]

(***************************************************************************)
(*            useMultiModelStream: submitQuery and abortStreaming          *)
(***************************************************************************)

\* Bound: submitQuery invocations that pass the idle guard, per behaviour.
MaxQueries == 3
\* Bound: chunks the streams deliver, per behaviour.
MaxChunks == 3

\* A HistoryItem / pending item: its type, its text, and (tool_group) tools.
Item(type, text, tools) == [type |-> type, text |-> text, tools |-> tools]
NullItem == Item("null", <<>>, <<>>)

\* A message object as convertHistoryToChatMessages writes it: role and
\* content, and the properties tool_calls and tool_call_id.  It sets neither
\* toolCalls nor toolCallId, which read as undefined (no tool call, no id).
HookMessage(role, text, tool_calls, tool_call_id) ==
    [ role |-> role,
      content |-> [kind |-> "string", text |-> text, parts |-> <<>>],
      toolCalls |-> <<>>,
      toolCallId |-> "undefined",
      tool_calls |-> tool_calls,
      tool_call_id |-> tool_call_id ]

\* The messages of one history item.
MessagesOfItem(item) ==
    CASE item.type = "user" -> <<HookMessage("user", item.text, <<>>, "undefined")>>
      [] item.type = "gemini_content" ->
           <<HookMessage("assistant", item.text, <<>>, "undefined")>>
      [] item.type = "tool_group" ->
           LET withResult == SelectSeq(item.tools, LAMBDA tool : tool.resultDisplay # <<>>)
           IN  <<HookMessage("assistant", <<>>,
                    [ i \in DOMAIN item.tools |->
                        [ id |-> item.tools[i].callId,
                          name |-> item.tools[i].name,
                          arguments |-> item.tools[i].description ] ],
                    "undefined")>>
               \o [ i \in DOMAIN withResult |->
                      HookMessage("tool", withResult[i].resultDisplay, <<>>,
                                  withResult[i].callId) ]
      [] OTHER -> <<>>

\* convertHistoryToChatMessages(history)
RECURSIVE ConvertHistoryToChatMessages(_)
ConvertHistoryToChatMessages(items) ==
    IF items = <<>>
    THEN <<>>
    ELSE MessagesOfItem(Head(items)) \o ConvertHistoryToChatMessages(Tail(items))

\* The frame of one submitQuery invocation.
NewQuery(pc, shellMode, ctrl) ==
    [ pc |-> pc,                 \* "at" | "shell" | "creating" | "streaming" |
                                 \* "done" | "returned" | "threw"
      shellModeActive |-> shellMode,
      ctrl |-> ctrl,             \* the AbortController this query created
      messages |-> <<>>,         \* const messages (the request's messages)
      toolCallsMap |-> <<>>,     \* const toolCallsMap = new Map()
      consumed |-> <<>>,         \* chunks the loop body has processed
      toolCallRequests |-> <<>>, \* const toolCallRequests
      scheduled |-> FALSE,       \* scheduleToolCalls(toolCallRequests, ...) ran
      error |-> "" ]

\* submitQuery from `setStreamingState(StreamingState.Responding)` to
\* `await createModelClient()`; qs is `queries` with the frame q in place.
StartQuery(qs, q) ==
    /\ streamingState' = "Responding"
    /\ initError' = ""
    /\ currentContent' = <<>>
    /\ controllers' = Append(controllers, FALSE)
    /\ abortController' = Len(controllers) + 1
    /\ history' = Append(history, Item("user", <<"input">>, <<>>))
    /\ pendingHistoryItem' = Item("gemini_content", <<>>, <<>>)
    \* messages = convertHistoryToChatMessages(history); messages.push(input):
    \* `history` is the value this submitQuery closure captured, the history
    \* before its own addItem.
    /\ queries' = [qs EXCEPT
          ![q].pc = "creating",
          ![q].ctrl = Len(controllers) + 1,
          ![q].messages = Append(ConvertHistoryToChatMessages(history),
                                 HookMessage("user", <<"input">>, <<>>, "undefined"))]
    /\ UNCHANGED <<hasActiveToolCalls, toolCalls>>

\* submitQuery from `if (shellModeActive && handleShellCommand)` on.
\* abortController.current!.signal throws a TypeError when the ref is null.
ShellOrStart(qs, q, shellResult) ==
    IF qs[q].shellModeActive
    THEN IF abortController = 0
         THEN /\ queries' = [qs EXCEPT ![q].pc = "threw", ![q].error = "TypeError"]
              /\ UNCHANGED <<streamingState, abortController, controllers,
                             currentContent, pendingHistoryItem, hasActiveToolCalls,
                             history, initError, toolCalls>>
         ELSE IF shellResult
              THEN \* handled as a shell command: onExec sets Responding; return
                   /\ queries' = [qs EXCEPT ![q].pc = "shell"]
                   /\ streamingState' = "Responding"
                   /\ UNCHANGED <<abortController, controllers, currentContent,
                                  pendingHistoryItem, hasActiveToolCalls, history,
                                  initError, toolCalls>>
              ELSE StartQuery(qs, q)
    ELSE StartQuery(qs, q)

\* submitQuery(input), from the call to its first await.
SubmitQuery(isAt, shellMode, shellResult) ==
    /\ streamingState = "Idle"
    /\ Len(queries) < MaxQueries
    /\ LET q == Len(queries) + 1 IN
       IF isAt
       THEN \* handleAtCommand({..., signal: abortController.current!.signal})
            /\ queries' = Append(queries,
                   IF abortController = 0
                   THEN [NewQuery("threw", shellMode, 0) EXCEPT !.error = "TypeError"]
                   ELSE NewQuery("at", shellMode, 0))
            /\ UNCHANGED <<streamingState, abortController, controllers,
                           currentContent, pendingHistoryItem, hasActiveToolCalls,
                           history, initError, toolCalls>>
       ELSE ShellOrStart(Append(queries, NewQuery("start", shellMode, 0)), q, shellResult)

\* submitQuery resumes after `await handleAtCommand(...)`.
AtCommandReturn(q, shouldProceed, shellResult) ==
    /\ queries[q].pc = "at"
    /\ IF shouldProceed
       THEN ShellOrStart(queries, q, shellResult)
       ELSE /\ queries' = [queries EXCEPT ![q].pc = "returned"]
            /\ UNCHANGED <<streamingState, abortController, controllers,
                           currentContent, pendingHistoryItem, hasActiveToolCalls,
                           history, initError, toolCalls>>

\* onExec of useShellCommandProcessor: `await done; setStreamingState(Idle)`.
ShellDone(q) ==
    /\ queries[q].pc = "shell"
    /\ queries' = [queries EXCEPT ![q].pc = "returned"]
    /\ streamingState' = "Idle"
    /\ UNCHANGED <<abortController, controllers, currentContent, pendingHistoryItem,
                   hasActiveToolCalls, history, initError, toolCalls>>

\* useInput handler (Ctrl+C / ESC while Responding) calling abortStreaming().
AbortStreaming ==
    /\ streamingState = "Responding"
    /\ IF abortController # 0
       THEN /\ controllers' = [controllers EXCEPT ![abortController] = TRUE]
            /\ abortController' = 0
       ELSE UNCHANGED <<controllers, abortController>>
    /\ history' = Append(history, Item("info", <<"Request cancelled.">>, <<>>))
    /\ streamingState' = "Idle"
    /\ UNCHANGED <<currentContent, pendingHistoryItem, hasActiveToolCalls, initError,
                   toolCalls, queries>>

\* `await createModelClient()` and the tool-registry awaits have resolved;
\* client.generateContentStream(request) is being iterated.
ClientReady(q) ==
    /\ queries[q].pc = "creating"
    /\ queries' = [queries EXCEPT ![q].pc = "streaming"]
    /\ UNCHANGED <<streamingState, abortController, controllers, currentContent,
                   pendingHistoryItem, hasActiveToolCalls, history, initError,
                   toolCalls>>

\* catch (error) { addItem(error); setInitError } finally { ... } of
\* submitQuery, for an error thrown by createModelClient or by the stream.
CatchAndFinally(q, message) ==
    /\ history' = Append(history, Item("error", <<message>>, <<>>))
    /\ initError' = message
    /\ streamingState' = IF hasActiveToolCalls THEN streamingState ELSE "Idle"
    /\ pendingHistoryItem' = IF hasActiveToolCalls THEN pendingHistoryItem ELSE NullItem
    /\ abortController' = 0
    /\ queries' = [queries EXCEPT ![q].pc = "done", ![q].error = message]
    /\ UNCHANGED <<controllers, currentContent, hasActiveToolCalls, toolCalls>>

\* createModelClient() (ModelManager.createClient) rejected.
ClientFailed(q) ==
    /\ queries[q].pc = "creating"
    /\ CatchAndFinally(q, "createClient failed")

\* client.generateContentStream threw while the loop awaited the next chunk.
StreamError(q) ==
    /\ queries[q].pc = "streaming"
    /\ CatchAndFinally(q, "streaming failed")

\* submitQuery after the `for await` loop: build the requests, schedule them
\* or add the content to the history, then the finally block.  map, consumed
\* and pending are the values the loop left.
LoopExit(q, map, consumed, pending) ==
    LET requests == ToolCallRequests(map)
        \* scheduleToolCalls(toolCallRequests, abortController.current.signal)
        typeError == abortController = 0
        active == map # <<>> /\ ~typeError
        history1 ==
            IF map # <<>>
            THEN IF typeError
                 THEN Append(history, Item("error", <<"Failed to schedule tool calls">>, <<>>))
                 ELSE history
            ELSE IF currentContent' # <<>>
                 THEN Append(history, Item("gemini_content", currentContent', <<>>))
                 ELSE history
    IN
    /\ hasActiveToolCalls' = IF map # <<>> THEN active ELSE hasActiveToolCalls
    /\ toolCalls' = IF active THEN toolCalls \o requests ELSE toolCalls
    /\ history' = history1
    \* finally
    /\ streamingState' = IF hasActiveToolCalls' THEN streamingState ELSE "Idle"
    /\ pendingHistoryItem' = IF hasActiveToolCalls' THEN pending ELSE NullItem
    /\ abortController' = 0
    /\ queries' = [queries EXCEPT ![q] =
          [@ EXCEPT !.pc = "done", !.toolCallsMap = map, !.consumed = consumed,
                    !.toolCallRequests = requests, !.scheduled = active]]
    /\ UNCHANGED <<controllers, initError>>

RECURSIVE SumConsumed(_)
SumConsumed(qs) ==
    IF qs = <<>> THEN 0 ELSE Len(Head(qs).consumed) + SumConsumed(Tail(qs))

\* One iteration of `for await (const chunk of client.generateContentStream(request))`.
StreamChunk(q, chunk) ==
    LET frame == queries[q]
        \* abortController.current?.signal.aborted
        aborted == abortController # 0 /\ controllers[abortController]
        content == IF aborted THEN currentContent ELSE currentContent \o chunk.content
        pending == IF ~aborted /\ chunk.content # <<>>
                   THEN Item("gemini_content", content, <<>>)
                   ELSE pendingHistoryItem
        map == IF aborted
               THEN frame.toolCallsMap
               ELSE AccumulateMessage(AccumulateDelta(frame.toolCallsMap, chunk.toolCalls),
                                      chunk.message)
        consumed == IF aborted THEN frame.consumed ELSE Append(frame.consumed, chunk)
    IN
    /\ frame.pc = "streaming"
    /\ SumConsumed(queries) < MaxChunks
    /\ currentContent' = content
    /\ IF aborted \/ chunk.finishReason \in {"stop", "tool_calls"}
       THEN LoopExit(q, map, consumed, pending)
       ELSE /\ queries' = [queries EXCEPT ![q].toolCallsMap = map,
                                          ![q].consumed = consumed]
            /\ pendingHistoryItem' = pending
            /\ UNCHANGED <<streamingState, abortController, controllers,
                           hasActiveToolCalls, history, initError, toolCalls>>

\* The stream ends (the generator returns) without a stop/tool_calls chunk.
StreamEnd(q) ==
    /\ queries[q].pc = "streaming"
    /\ currentContent' = currentContent
    /\ LoopExit(q, queries[q].toolCallsMap, queries[q].consumed, pendingHistoryItem)

\* The scheduler's completion callback (the handler given to
\* useReactToolScheduler) for the scheduled tool calls.
\* hasResult: the tool calls completed with a resultDisplay.
ToolsComplete(hasResult) ==
    /\ toolCalls # <<>>
    /\ history' = Append(history, Item("tool_group", <<>>,
          [ i \in DOMAIN toolCalls |->
              [ callId |-> toolCalls[i].callId,
                name |-> toolCalls[i].name,
                description |-> <<toolCalls[i].name>>,
                resultDisplay |-> IF hasResult THEN <<"r">> ELSE <<>> ] ]))
    /\ hasActiveToolCalls' = FALSE
    /\ streamingState' = "Idle"
    /\ pendingHistoryItem' = NullItem
    /\ toolCalls' = <<>>
    /\ UNCHANGED <<abortController, controllers, currentContent, initError, queries>>

\* Chunks of the hook scenarios: text, one tool-call fragment, a stop chunk.
HookChunks ==
    { Chunk(<<"t">>, <<>>, "null"),
      Chunk(<<>>, <<ToolCallFragment("a", "f", <<LB, RB>>)>>, "null"),
      Chunk(<<>>, <<>>, "stop") }

\* Chunks of the accumulation scenarios: every single fragment over two ids
\* (or none), with or without a name, with any one token of argument text
\* (or none); two fragments in one chunk; text; the finish reasons.
Fragments ==
    { ToolCallFragment(id, name, arguments) :
        id \in {"", "a", "b"}, name \in {"", "f"},
        arguments \in {<<>>, <<LB>>, <<RB>>} }

AccumChunks ==
    { Chunk(<<>>, <<fr>>, "null") : fr \in Fragments }
    \cup { Chunk(<<>>, <<ToolCallFragment("a", "f", <<LB>>),
                         ToolCallFragment("b", "f", <<Digit>>)>>, "null"),
           Chunk(<<>>, <<ToolCallFragment("", "", <<RB>>)>>, "tool_calls"),
           Chunk(<<"t">>, <<>>, "null"),
           Chunk(<<>>, <<>>, "stop"),
           Chunk(<<>>, <<>>, "length") }

(***************************************************************************)
(*   BaseModelClient.makeStreamingRequest and generateContentStream        *)
(***************************************************************************)

\* Bound: network reads of one response body.
MaxReads == 3

\* The response text is a sequence of tokens.
NL == "\n"
DataPrefix == "data: "
DoneSentinel == "[DONE]"
GoodDelta == "{\"choices\":[{\"delta\":{}}]}"   \* JSON with choices[0].delta
GoodOther == "{}"                               \* JSON without choices
BadJSON == "{\"choices\":"                      \* a truncated document

\* JSON.parse(trimmed.slice(6)) succeeds: the payload is one JSON document.
PayloadParses(payload) == payload \in {<<GoodDelta>>, <<GoodOther>>}

\* What one reader.read() may deliver: whole lines, several lines, and the
\* pieces of a line split between two reads.
Reads ==
    { <<DataPrefix, GoodDelta, NL>>,
      <<DataPrefix, BadJSON, NL>>,
      <<DataPrefix, GoodOther, NL>>,
      <<DataPrefix, DoneSentinel, NL>>,
      <<DataPrefix, BadJSON, NL, DataPrefix, GoodDelta, NL>>,
      <<DataPrefix, GoodDelta>>,
      <<DataPrefix>>,
      <<NL>>,
      <<GoodDelta, NL>> }

\* buffer.split('\n'): the segments between the newlines, the last one being
\* the text after the last newline.
RECURSIVE Split(_, _)
Split(text, current) ==
    IF text = <<>>
    THEN <<current>>
    ELSE IF Head(text) = NL
         THEN <<current>> \o Split(Tail(text), <<>>)
         ELSE Split(Tail(text), Append(current, Head(text)))

\* An element of the generator: { success, data?, error?, done? }.
Element(success, data, error, done) ==
    [success |-> success, data |-> data, error |-> error, done |-> done]

\* A plausible slip: the sentinel line is answered with the terminal element.
LineElementDoneAtSentinel(line) ==
    IF line = <<>>
    THEN "none"
    ELSE IF line = <<DataPrefix, DoneSentinel>>
         THEN "done"
         ELSE IF Head(line) = DataPrefix /\ Len(line) > 1
              THEN IF PayloadParses(Tail(line))
                   THEN "data"
                   ELSE "parse-error"
              ELSE "none"

\* The element the generator yields for one complete line ("none": nothing).
\* line.trim() only matters for a line that ends with the prefix itself:
\* "data: " trims to "data:", which no longer starts with the prefix.
LineElement(line) ==
    IF line = <<>> \/ line = <<DataPrefix, DoneSentinel>>
    THEN "none"
    ELSE IF Head(line) = DataPrefix /\ Len(line) > 1
         THEN IF PayloadParses(Tail(line))
              THEN "data"
              ELSE "parse-error"
         ELSE "none"

\* The adapter's loop body for one element of makeStreamingRequest:
\* if (!chunk.success) throw; if (chunk.done) return; if (chunk.data) yield.
AdapterReaction(kind) ==
    CASE kind \in {"parse-error", "http-error", "no-body", "error"} -> "threw"
      [] kind = "done" -> "returned"
      [] OTHER -> "running"

\* transformStreamingChunk(data) of the OpenAI-compatible adapters: a chunk
\* when data.choices[0].delta exists, else null (nothing is yielded).
TransformStreamingChunk(data) ==
    IF data = <<GoodDelta>> THEN <<Chunk(<<>>, <<>>, "null")>> ELSE <<>>

\* The generator yields an element of this kind and the adapter's loop body
\* runs on it.
Yield(kind, data) ==
    /\ tElems' = Append(tElems,
          Element(kind \in {"data", "done"}, data,
                  IF kind \in {"data", "done"} THEN "" ELSE kind, kind = "done"))
    /\ aState' = AdapterReaction(kind)
    /\ aChunks' = IF kind = "data" /\ AdapterReaction(kind) = "running"
                  THEN aChunks \o TransformStreamingChunk(data)
                  ELSE aChunks

\* generateContentStream(request) is iterated: makeStreamingRequest creates
\* its AbortController, arms the 30 s timer and calls fetch.
Fetch ==
    /\ tState = "idle"
    /\ aState = "idle"
    /\ tState' = "fetching"
    /\ aState' = "running"
    /\ response' = "pending"
    /\ timer' = "armed"
    /\ UNCHANGED <<body, buffer, lines, tElems, aChunks, lineLog>>

\* A plausible slip: after the error element of a failed response the
\* generator falls through to its final `yield { success: true, done: true }`.
StartStreamFallingThrough(outcome) ==
    /\ tState = "fetching"
    /\ response' = outcome
    /\ timer' = IF outcome = "error" THEN timer ELSE "cleared"
    /\ IF outcome = "ok"
       THEN /\ tState' = "reading"
            /\ UNCHANGED <<tElems, aState, aChunks>>
       ELSE /\ tElems' = tElems \o <<Element(FALSE, <<>>, outcome, FALSE),
                                     Element(TRUE, <<>>, "", TRUE)>>
            /\ aState' = AdapterReaction(outcome)
            /\ tState' = "closed"
            /\ UNCHANGED aChunks
    /\ UNCHANGED <<body, buffer, lines, lineLog>>

\* `await fetch(...)` settles.  outcome: "ok", "http-error" (!response.ok),
\* "no-body" (no reader), or "error" (fetch rejected with a network failure:
\* control goes to the outer catch, clearTimeout is skipped).
StartStream(outcome) ==
    /\ tState = "fetching"
    /\ response' = outcome
    /\ timer' = IF outcome = "error" THEN timer ELSE "cleared"
    /\ IF outcome = "ok"
       THEN /\ tState' = "reading"
            /\ UNCHANGED <<tElems, aState, aChunks>>
       ELSE \* one error element; the generator then returns
            /\ tElems' = Append(tElems, Element(FALSE, <<>>, outcome, FALSE))
            /\ aState' = AdapterReaction(outcome)
            /\ tState' = "closed"
            /\ UNCHANGED aChunks
    /\ UNCHANGED <<body, buffer, lines, lineLog>>

\* The 30 s timer fires: controller.abort().  A fetch still pending rejects
\* with an AbortError, which the outer catch turns into an error element;
\* after the fetch has settled the abort has nothing left to cancel.
TimeoutFires ==
    /\ timer = "armed"
    /\ timer' = "fired"
    /\ IF tState = "fetching"
       THEN /\ response' = "aborted"
            /\ Yield("error", <<>>)
            /\ tState' = "closed"
       ELSE UNCHANGED <<response, tState, tElems, aState, aChunks>>
    /\ UNCHANGED <<body, buffer, lines, lineLog>>

\* A plausible slip: every read is split on its own; the text after its last
\* newline is not carried over to the next read.
ReadValueSplittingEachRead(value) ==
    /\ tState = "reading"
    /\ lines = <<>>
    /\ Len(body) < MaxReads
    /\ LET parts == Split(value, <<>>) IN
       /\ lines' = SubSeq(parts, 1, Len(parts) - 1)
       /\ buffer' = parts[Len(parts)]
    /\ body' = Append(body, value)
    /\ UNCHANGED <<response, timer, tState, tElems, aState, aChunks, lineLog>>

\* `const { done, value } = await reader.read()` with done = false:
\* buffer += decode(value); lines = buffer.split('\n'); buffer = lines.pop()
ReadValue(value) ==
    /\ tState = "reading"
    /\ lines = <<>>
    /\ Len(body) < MaxReads
    /\ LET parts == Split(buffer \o value, <<>>) IN
       /\ lines' = SubSeq(parts, 1, Len(parts) - 1)
       /\ buffer' = parts[Len(parts)]
    /\ body' = Append(body, value)
    /\ UNCHANGED <<response, timer, tState, tElems, aState, aChunks, lineLog>>

\* One iteration of `for (const line of lines)`.  When the adapter throws or
\* returns on the element, the generator is closed (its finally block
\* releases the reader).
HandleLine ==
    /\ tState = "reading"
    /\ lines # <<>>
    /\ lines' = Tail(lines)
    /\ lineLog' = Append(lineLog, Head(lines))
    /\ IF LineElement(Head(lines)) = "none"
       THEN UNCHANGED <<tState, tElems, aState, aChunks>>
       ELSE /\ Yield(LineElement(Head(lines)),
                     IF LineElement(Head(lines)) = "data"
                     THEN Tail(Head(lines)) ELSE <<>>)
            /\ tState' = IF AdapterReaction(LineElement(Head(lines))) = "running"
                         THEN tState ELSE "closed"
    /\ UNCHANGED <<response, timer, body, buffer>>

\* reader.read() resolves with done = true: break; yield { done: true }.
ReadDone ==
    /\ tState = "reading"
    /\ lines = <<>>
    /\ Yield("done", <<>>)
    /\ tState' = "ended"
    /\ UNCHANGED <<response, timer, body, buffer, lines, lineLog>>

\* reader.read() rejects (connection error): the outer catch yields an
\* error element.
ReadError ==
    /\ tState = "reading"
    /\ lines = <<>>
    /\ Yield("error", <<>>)
    /\ tState' = "failed"
    /\ UNCHANGED <<response, timer, body, buffer, lines, lineLog>>

(***************************************************************************)
(*      The vendor adapters: request translation and response mapping      *)
(***************************************************************************)

\* Bound: messages of one request.
MaxMessages == 2

Vendors == {"google", "anthropic", "deepseek", "qwen"}
VendorName(vendor) ==
    CASE vendor = "google" -> "Google"
      [] vendor = "anthropic" -> "Anthropic"
      [] vendor = "deepseek" -> "DeepSeek"
      [] vendor = "qwen" -> "Qwen"

\* ChatMessage.content: a string (a sequence of characters) or ContentPart[].
ContentString(text) == [kind |-> "string", text |-> text, parts |-> <<>>]
ContentParts(parts) == [kind |-> "parts", text |-> <<>>, parts |-> parts]
ContentPart(type, text) == [type |-> type, text |-> text]

\* ChatMessage: role, content, toolCalls? and toolCallId? ("undefined": not
\* set).
ChatMessage(role, content, messageToolCalls) ==
    [ role |-> role, content |-> content, toolCalls |-> messageToolCalls,
      toolCallId |-> "undefined" ]

\* The messages requests are built from: every role, string and multipart
\* content, texts of several lengths, tool calls with valid and with
\* unparsable argument text.
Messages ==
    { ChatMessage("user", ContentString(<<"h", "e", "y">>), <<>>),
      ChatMessage("user", ContentString(<<>>), <<>>),
      ChatMessage("user",
          ContentParts(<<ContentPart("text", <<"a", "b">>), ContentPart("image", <<>>),
                         ContentPart("text", <<>>), ContentPart("text", <<"c">>)>>),
          <<>>),
      ChatMessage("system", ContentString(<<"s", "y", "s", "1">>), <<>>),
      ChatMessage("system", ContentString(<<"z">>), <<>>),
      ChatMessage("assistant", ContentString(<<"o", "k">>),
          <<ToolCallFragment("a", "f", <<LB, RB>>)>>),
      ChatMessage("assistant", ContentString(<<>>),
          <<ToolCallFragment("b", "f", <<LB>>)>>),
      [ChatMessage("tool", ContentString(<<"r">>), <<>>) EXCEPT !.toolCallId = "a"] }

\* GenerationRequest: its messages and parameters.systemPrompt (<<>>: unset).
GenerationRequest(messages, systemPrompt) ==
    [messages |-> messages, systemPrompt |-> systemPrompt]

Requests ==
    { GenerationRequest(messages, systemPrompt) :
        messages \in UNION { [1..n -> Messages] : n \in 0..MaxMessages },
        systemPrompt \in {<<>>, <<"p">>} }

\* validate(): { messages: [{ role: 'user', content: 'Hello' }], ... }
TestRequest ==
    GenerationRequest(
        <<ChatMessage("user", ContentString(<<"H", "e", "l", "l", "o">>), <<>>)>>, <<>>)

\* texts.join('\n')
RECURSIVE JoinNL(_)
JoinNL(texts) ==
    IF texts = <<>> THEN <<>>
    ELSE IF Len(texts) = 1 THEN texts[1]
    ELSE texts[1] \o <<NL>> \o JoinNL(Tail(texts))

\* BaseModelClient.extractTextFromContent
TextOfPart(part) == part.text
ExtractTextFromContent(content) ==
    IF content.kind = "string"
    THEN content.text
    ELSE LET textParts == SelectSeq(content.parts,
                              LAMBDA part : part.type = "text" /\ part.text # <<>>)
         IN  JoinNL([i \in DOMAIN textParts |-> TextOfPart(textParts[i])])

TextOfMessage(message) == ExtractTextFromContent(message.content)

\* A turn of a vendor body: its role and its content blocks.
Turn(role, content) == [role |-> role, content |-> content]
Block(type, text) == [type |-> type, text |-> text, id |-> ""]

\* JSON.parse(toolCall.function.arguments) throws for one of the tool calls.
ToolCallsThrow(message) ==
    \E i \in DOMAIN message.toolCalls : ~IsValidJSON(message.toolCalls[i].arguments)


NotSystem(message) == message.role # "system"
IsSystem(message) == message.role = "system"

\* GoogleModelClient.transformMessages, one iteration for a non-system
\* message: text and image parts, then a functionCall part per tool call.
GoogleBlock(part) ==
    IF part.type = "text" THEN Block("text", part.text) ELSE Block("inlineData", <<>>)
FunctionCallBlock(toolCall) == Block("functionCall", <<toolCall.name>>)
GoogleTurn(message) ==
    Turn(IF message.role = "assistant" THEN "model" ELSE message.role,
         (IF message.content.kind = "string"
          THEN <<Block("text", message.content.text)>>
          ELSE [i \in DOMAIN message.content.parts |-> GoogleBlock(message.content.parts[i])])
         \o [i \in DOMAIN message.toolCalls |-> FunctionCallBlock(message.toolCalls[i])])

\* AnthropicModelClient.transformMessages, the map callback.
AnthropicBlock(part) ==
    IF part.type = "text" THEN Block("text", part.text) ELSE Block("image", <<>>)
ToolUseBlock(toolCall) ==
    [type |-> "tool_use", text |-> <<toolCall.name>>, id |-> toolCall.id]
\* { type: 'tool_result', tool_use_id: message.toolCallId, content }
ToolResultBlock(message) ==
    [type |-> "tool_result", text |-> message.content.text, id |-> message.toolCallId]
AnthropicTurn(message) ==
    IF message.role = "tool"
    THEN Turn("user", <<ToolResultBlock(message)>>)
    ELSE Turn(message.role,
              (IF message.content.kind = "string"
               THEN <<Block("text", message.content.text)>>
               ELSE [i \in DOMAIN message.content.parts |-> AnthropicBlock(message.content.parts[i])])
              \o [i \in DOMAIN message.toolCalls |-> ToolUseBlock(message.toolCalls[i])])

\* DeepSeekModelClient / QwenModelClient.transformMessages: the role expression
\* message.role === 'assistant' ? 'assistant'
\*   : message.role === 'system' ? 'system' : 'user'
OpenAIRole(role) ==
    IF role = "assistant" THEN "assistant"
    ELSE IF role = "system" THEN "system" ELSE "user"

OpenAIBlock(part) ==
    IF part.type = "text" THEN Block("text", part.text) ELSE Block("image_url", <<>>)
OpenAITurn(message) ==
    Turn(OpenAIRole(message.role),
         IF message.content.kind = "string"
         THEN <<Block("string", message.content.text)>>
         ELSE [i \in DOMAIN message.content.parts |-> OpenAIBlock(message.content.parts[i])])

\* The vendor body: whether building it threw, its system field (present or
\* not) and its turn sequence.
VendorBody(threw, hasSystem, system, turns) ==
    [threw |-> threw, hasSystem |-> hasSystem, system |-> system, turns |-> turns]

\* AnthropicModelClient.separateSystemMessage: the joined system text, or
\* undefined when there is no system message.
SystemPromptOf(messages) ==
    LET systemMessages == SelectSeq(messages, IsSystem)
    IN  JoinNL([i \in DOMAIN systemMessages |-> TextOfMessage(systemMessages[i])])

\* buildRequestBody(request) of each adapter.
BuildRequestBody(vendor, request) ==
    LET others == SelectSeq(request.messages, NotSystem)
        parseThrows == \E i \in DOMAIN others : ToolCallsThrow(others[i])
    IN
    CASE vendor = "google" ->
           \* systemInstruction comes from request.parameters.systemPrompt
           VendorBody(parseThrows, request.systemPrompt # <<>>, request.systemPrompt,
                      [i \in DOMAIN others |-> GoogleTurn(others[i])])
      [] vendor = "anthropic" ->
           \* `if (systemPrompt) body.system = systemPrompt`
           VendorBody(parseThrows, SystemPromptOf(request.messages) # <<>>,
                      SystemPromptOf(request.messages),
                      [i \in DOMAIN others |-> AnthropicTurn(others[i])])
      [] OTHER ->
           VendorBody(FALSE, FALSE, <<>>,
                      [i \in DOMAIN request.messages |-> OpenAITurn(request.messages[i])])

\* A plausible slip: a code no table knows is passed on as it is.
MapFinishReasonPassingUnknown(vendor, reason) ==
    IF reason \in {"stop", "length", "tool_calls", "content_filter", "OTHER"}
    THEN reason
    ELSE CASE reason \in {"STOP", "end_turn", "stop_sequence"} /\ vendor # "deepseek" -> "stop"
           [] reason \in {"MAX_TOKENS", "max_tokens"} /\ vendor # "deepseek" -> "length"
           [] OTHER -> "null"

\* mapFinishReason(reason) of each adapter; reason "undefined" is a missing
\* code, the result "null" is null.
MapFinishReason(vendor, reason) ==
    CASE vendor = "google" ->
           (CASE reason = "STOP" -> "stop"
              [] reason = "MAX_TOKENS" -> "length"
              [] reason = "SAFETY" -> "content_filter"
              [] reason = "RECITATION" -> "content_filter"
              [] OTHER -> "null")
      [] vendor = "anthropic" ->
           (CASE reason = "end_turn" -> "stop"
              [] reason = "max_tokens" -> "length"
              [] reason = "tool_use" -> "tool_calls"
              [] reason = "stop_sequence" -> "stop"
              [] OTHER -> "null")
      [] OTHER ->
           (CASE reason = "stop" -> "stop"
              [] reason = "length" -> "length"
              [] reason = "tool_calls" -> "tool_calls"
              [] reason = "content_filter" -> "content_filter"
              [] OTHER -> "null")

\* Finish codes a response may carry: every vendor's codes, a code no table
\* knows, and no code at all.
FinishCodes ==
    { "STOP", "MAX_TOKENS", "SAFETY", "RECITATION",
      "end_turn", "max_tokens", "tool_use", "stop_sequence",
      "stop", "length", "tool_calls", "content_filter",
      "OTHER", "undefined" }

\* A plausible slip: Math.floor instead of Math.ceil.
EstimateTokensFloor(messages) ==
    Len(JoinNL([i \in DOMAIN messages |-> TextOfMessage(messages[i])])) \div 4

\* countTokens of the adapters without a counting endpoint:
\* Math.ceil(totalText.length / 4)
EstimateTokens(messages) ==
    LET totalText == JoinNL([i \in DOMAIN messages |-> TextOfMessage(messages[i])])
    IN  IF Len(totalText) % 4 = 0
        THEN Len(totalText) \div 4
        ELSE Len(totalText) \div 4 + 1


\* What makeRequest's fetch and body read may give: a rejected fetch, the
\* 30 s abort, a non-2xx status, a 2xx body that is not JSON, a 2xx JSON body.
FetchOutcomes == {"network-error", "timeout", "http-error", "bad-json", "ok"}

\* BaseModelClient.makeRequest: never throws; { success, error?, response? }.
\* status is response?.status || 'unknown'.
MakeRequest(outcome) ==
    CASE outcome = "ok" ->
           [success |-> TRUE, error |-> "", status |-> "200"]
      [] outcome = "http-error" ->
           [success |-> FALSE, error |-> "HTTP 401: Unauthorized", status |-> "401"]
      [] outcome = "bad-json" ->
           [success |-> FALSE, error |-> "Unexpected token < in JSON", status |-> "unknown"]
      [] outcome = "timeout" ->
           [success |-> FALSE, error |-> "This operation was aborted", status |-> "unknown"]
      [] OTHER ->
           [success |-> FALSE, error |-> "fetch failed", status |-> "unknown"]

\* The JSON document of a 2xx response: complete (it has the vendor's
\* choices / candidates / content / output, with a finish code) or an empty
\* object.
ResponseData(shape, finishReason) == [shape |-> shape, finishReason |-> finishReason]
NoData == ResponseData("none", "undefined")
ResponseDatas ==
    { ResponseData("complete", code) : code \in FinishCodes }
    \cup { ResponseData("empty", "undefined") }

\* What an adapter operation gives its caller.
Result(finishReason, totalTokens, promptTokens, estimated, valid) ==
    [ finishReason |-> finishReason, totalTokens |-> totalTokens,
      promptTokens |-> promptTokens, estimated |-> estimated, valid |-> valid ]
NoResult == Result("", 0, 0, FALSE, FALSE)

\* How a call ends: pc "returned" with a result, or "threw" with the tokens
\* of the error message.
Ended(pc, error, result) == [pc |-> pc, error |-> error, result |-> result]

\* generateContent(request) after `await this.makeRequest(...)`.
GenerateContentEnd(vendor, outcome, data) ==
    LET r == MakeRequest(outcome) IN
    IF vendor \in {"deepseek", "qwen"}
    THEN \* try { ... } catch (error) { throw new Error(`X API failed: ${error.message}`) }
         IF ~r.success
         THEN Ended("threw", <<VendorName(vendor), " API failed: ", VendorName(vendor),
                              " API error (", r.status, "): ", r.error>>, NoResult)
         ELSE IF data.shape = "empty"
         THEN Ended("threw", <<VendorName(vendor), " API failed: ",
                              IF vendor = "deepseek"
                              THEN "No choices in DeepSeek response"
                              ELSE "No output in Qwen response">>, NoResult)
         ELSE Ended("returned", <<>>,
                    Result(MapFinishReason(vendor, data.finishReason), 0, 0, FALSE, FALSE))
    ELSE \* no try: throw new Error(`X API error: ${response.error}`)
         IF ~r.success
         THEN Ended("threw", <<VendorName(vendor), " API error: ", r.error>>, NoResult)
         ELSE Ended("returned", <<>>,
                    Result(MapFinishReason(vendor, data.finishReason), 0, 0, FALSE, FALSE))

\* A plausible slip: validate() lets the error of generateContent escape.
ValidateEndRethrowing(inner) ==
    IF inner.pc = "returned"
    THEN Ended("returned", <<>>, Result("", 0, 0, FALSE, TRUE))
    ELSE inner

\* validate(): try { await this.generateContent(testRequest); return true }
\* catch { return false }
ValidateEnd(inner) ==
    Ended("returned", <<>>, Result("", 0, 0, FALSE, inner.pc = "returned"))

\* GoogleModelClient.countTokens after `await this.makeRequest(...)`.
CountTokensEnd(outcome) ==
    LET r == MakeRequest(outcome) IN
    IF ~r.success
    THEN Ended("threw", <<"Google", " API token count error: ", r.error>>, NoResult)
    ELSE Ended("returned", <<>>, Result("", 1, 1, FALSE, FALSE))

\* One operation of one adapter, from its call to its end.  The adapters
\* keep no state between operations, so a behaviour follows one operation.
AdapterCall(vendor, op, request, pc, vendorBody, netRequests, outcome, data, inner, end) ==
    [ vendor |-> vendor, op |-> op, request |-> request,
      pc |-> pc,                    \* "none" | "awaiting" | "returned" | "threw"
      body |-> vendorBody,          \* the vendor body built for the request
      netRequests |-> netRequests,  \* makeRequest calls of this operation
      outcome |-> outcome,          \* what makeRequest met
      data |-> data,                \* the JSON document of the response
      inner |-> inner,              \* validate(): how its generateContent ended
      error |-> end.error, result |-> end.result ]

NoBody == VendorBody(FALSE, FALSE, <<>>, <<>>)
NoEnd == Ended("none", <<>>, NoResult)
NoAdapterCall ==
    AdapterCall("", "none", GenerationRequest(<<>>, <<>>), "none", NoBody, 0,
                "none", NoData, "none", NoEnd)

\* generateContent(request) up to `await this.makeRequest(...)`: the body is
\* built first; JSON.parse in transformMessages may throw.
GenerateContent(vendor, request) ==
    LET vendorBody == BuildRequestBody(vendor, request) IN
    /\ adapterCall.pc = "none"
    /\ adapterCall' =
         IF vendorBody.threw
         THEN \* Google, Anthropic: the SyntaxError leaves generateContent as it is
              AdapterCall(vendor, "generateContent", request, "threw", vendorBody, 0,
                  "none", NoData, "none",
                  Ended("threw", <<"Unexpected end of JSON input">>, NoResult))
         ELSE AdapterCall(vendor, "generateContent", request, "awaiting", vendorBody, 1,
                  "none", NoData, "none", NoEnd)

\* validate() up to the await inside its generateContent(testRequest).
Validate(vendor) ==
    /\ adapterCall.pc = "none"
    /\ adapterCall' =
         AdapterCall(vendor, "validate", TestRequest, "awaiting",
                     BuildRequestBody(vendor, TestRequest), 1, "none", NoData, "none", NoEnd)

\* countTokens(request): Google asks its countTokens endpoint, the other
\* adapters estimate from the text.
CountTokens(vendor, request) ==
    LET vendorBody == BuildRequestBody(vendor, request) IN
    /\ adapterCall.pc = "none"
    /\ adapterCall' =
         IF vendor = "google"
         THEN IF vendorBody.threw
              THEN AdapterCall(vendor, "countTokens", request, "threw", NoBody, 0,
                       "none", NoData, "none",
                       Ended("threw", <<"Unexpected end of JSON input">>, NoResult))
              ELSE AdapterCall(vendor, "countTokens", request, "awaiting", NoBody, 1,
                       "none", NoData, "none", NoEnd)
         ELSE AdapterCall(vendor, "countTokens", request, "returned", NoBody, 0,
                  "none", NoData, "none",
                  Ended("returned", <<>>,
                        Result("", EstimateTokens(request.messages),
                               EstimateTokens(request.messages), TRUE, FALSE)))

\* generateEmbeddings(request) / listModels() of BaseModelClient: no adapter
\* overrides them.
Unsupported(vendor, op) ==
    /\ adapterCall.pc = "none"
    /\ adapterCall' =
         AdapterCall(vendor, op, GenerationRequest(<<>>, <<>>), "threw", NoBody, 0,
             "none", NoData, "none",
             Ended("threw", <<IF op = "generateEmbeddings"
                              THEN "Embeddings not supported by "
                              ELSE "Model listing not supported by ", vendor>>, NoResult))

\* `await this.makeRequest(...)` settles and the operation runs to its end.
MakeRequestReturn(outcome, data) ==
    /\ adapterCall.pc = "awaiting"
    /\ (outcome = "ok") <=> (data # NoData)
    /\ LET c == adapterCall
           inner == GenerateContentEnd(c.vendor, outcome, data)
           end == CASE c.op = "generateContent" -> inner
                    [] c.op = "validate" -> ValidateEnd(inner)
                    [] OTHER -> CountTokensEnd(outcome)
       IN adapterCall' =
            AdapterCall(c.vendor, c.op, c.request, end.pc, c.body, c.netRequests,
                        outcome, data,
                        IF c.op = "validate" THEN inner.pc ELSE "none", end)

(***************************************************************************)
(*                  SmartToolFilter: which tools to offer                  *)
(***************************************************************************)

\* Bound: words of one user input.
MaxWords == 3

\* The user input is a sequence of words, joined by single spaces.  The
\* vocabulary: a word no rule knows, a pattern of the file rule (needs
\* specific information), the same with a capital, a pattern of the search
\* rule (needs none), a path, a number, and a word of 51 letters.
LongWord == "aaaaaaaaaaaaaaaaaaaaaaaaaaaaaaaaaaaaaaaaaaaaaaaaaaa"
Words == {"hello", "file", "File", "search", "/tmp/a.txt", "42", LongWord}
Inputs == UNION { [1..n -> Words] : n \in 0..MaxWords }

\* word.toLowerCase()
ToLowerCase(word) == IF word = "File" THEN "file" ELSE word

\* word.length
WordLength(word) ==
    CASE word = "hello" -> 5
      [] word \in {"file", "File"} -> 4
      [] word = "search" -> 6
      [] word = "/tmp/a.txt" -> 10
      [] word = "42" -> 2
      [] word = LongWord -> 51

\* input.length of the joined words
RECURSIVE InputLength(_)
InputLength(input) ==
    IF input = <<>> THEN 0
    ELSE WordLength(Head(input))
         + (IF Len(input) > 1 THEN 1 + InputLength(Tail(input)) ELSE 0)

\* input.split(/\s+/).length: the empty input splits into one empty word.
WordCount(input) == IF input = <<>> THEN 1 ELSE Len(input)

\* filterRules, with the patterns written in Latin letters.  The input is
\* lower case when it is matched, so 'SQL' and 'URL' match no input.
FilterRule(patterns, category, requiresSpecificity, minInfoLevel) ==
    [ patterns |-> patterns, category |-> category,
      requiresSpecificity |-> requiresSpecificity, minInfoLevel |-> minInfoLevel ]
FilterRules ==
    << FilterRule({"SQL", "mysql", "sqlite", "postgres", "database", "tables"},
                  "database_operations", TRUE, 3),
       FilterRule({"file", "directory", "folder", "read", "write", "list"},
                  "file_operations", TRUE, 2),
       FilterRule({"URL", "website", "fetch", "download", "http"},
                  "network_operations", TRUE, 3),
       FilterRule({"shell", "bash", "command", "execute", "run"},
                  "shell_operations", FALSE, 2),
       FilterRule({"search", "find", "look for"}, "search_operations", FALSE, 2),
       FilterRule({"remember", "save", "record", "memory"},
                  "memory_operations", FALSE, 2) >>

\* input.includes(pattern): no pattern of the rules spans two words of the
\* vocabulary, and a word of the vocabulary contains a pattern only when it
\* is that pattern.
Includes(input, pattern) == \E i \in DOMAIN input : input[i] = pattern

\* hasSpecificTerms: of the vocabulary only the path matches one of the
\* patterns (a Unix path, and a file name with an extension).
HasSpecificTerms(input) == \E i \in DOMAIN input : input[i] = "/tmp/a.txt"

\* /\d+/.test(input)
HasDigits(input) == \E i \in DOMAIN input : input[i] = "42"

\* getMatchedCategories: the categories of the rules with a matching
\* pattern, in rule order (the rules' categories are distinct).
GetMatchedCategories(input) ==
    LET matched == SelectSeq(FilterRules,
                      LAMBDA rule : \E pattern \in rule.patterns : Includes(input, pattern))
    IN  [i \in DOMAIN matched |-> matched[i].category]

Min(a, b) == IF a < b THEN a ELSE b

\* assessInformationLevel
AssessInformationLevel(input) ==
    Min(1 + (IF InputLength(input) > 50 THEN 1 ELSE 0)
          + (IF HasSpecificTerms(input) THEN 1 ELSE 0)
          + (IF HasDigits(input) THEN 1 ELSE 0)
          + (IF WordCount(input) > 8 THEN 1 ELSE 0), 5)

\* isInputComplete
IsInputComplete(input, categories, infoLevel) ==
    IF categories = <<>>
    THEN FALSE
    ELSE \A c \in DOMAIN categories :
            \A r \in DOMAIN FilterRules :
                (FilterRules[r].category = categories[c] /\ FilterRules[r].requiresSpecificity)
                   => infoLevel >= FilterRules[r].minInfoLevel

\* calculateConfidence, in tenths
CalculateConfidence(wordCount, hasSpecific, categoryCount, infoLevel) ==
    Min(5 + (IF wordCount > 3 THEN 1 ELSE 0)
          + (IF hasSpecific THEN 2 ELSE 0)
          + categoryCount
          + (IF infoLevel >= 3 THEN 1 ELSE 0), 10)

\* analyzeUserInput(input): UserInputAnalysis
AnalyzeUserInputResult(input) ==
    LET normalizedInput == [i \in DOMAIN input |-> ToLowerCase(input[i])]
        wordCount == WordCount(normalizedInput)
        hasSpecificTerms == HasSpecificTerms(normalizedInput)
        matchedCategories == GetMatchedCategories(normalizedInput)
        informationLevel == AssessInformationLevel(normalizedInput)
        isComplete == IsInputComplete(normalizedInput, matchedCategories, informationLevel)
    IN  [ isComplete |-> isComplete,
          isSpecific |-> hasSpecificTerms /\ informationLevel >= 3,
          requiresMoreInfo |-> matchedCategories # <<>> /\ ~isComplete,
          suggestedToolCategories |-> matchedCategories,
          confidence |-> CalculateConfidence(wordCount, hasSpecificTerms,
                                             Len(matchedCategories), informationLevel) ]

\* getBasicTools
BasicToolNames == {"web_search", "memory", "ls", "grep"}
GetBasicTools(tools) == SelectSeq(tools, LAMBDA tool : tool \in BasicToolNames)

\* isToolInCategories: toolCategoryMap[tool.name] || []
ToolCategoryMap(tool) ==
    CASE tool \in {"ls", "read_file", "write_file", "edit", "glob", "read_many_files"} ->
           {"file_operations"}
      [] tool = "shell" -> {"shell_operations", "database_operations"}
      [] tool = "web_fetch" -> {"network_operations"}
      [] tool \in {"web_search", "grep"} -> {"search_operations"}
      [] tool = "memory" -> {"memory_operations"}
      [] tool = "update_todos" -> {"development_operations"}
      [] OTHER -> {}
IsToolInCategories(tool, categories) ==
    \E c \in DOMAIN categories : categories[c] \in ToolCategoryMap(tool)

\* filterTools(tools, analysis); a tool is its name.
FilterToolsResult(tools, analysis) ==
    IF analysis.requiresMoreInfo \/ ~analysis.isComplete
    THEN <<>>
    ELSE IF analysis.suggestedToolCategories = <<>>
         THEN GetBasicTools(tools)
         ELSE SelectSeq(tools,
                 LAMBDA tool : IsToolInCategories(tool, analysis.suggestedToolCategories))

\* The tool lists a caller passes: none, every tool of the registry, and
\* two shorter lists.
ToolLists ==
    { <<>>,
      <<"ls", "read_file", "write_file", "edit", "glob", "shell", "web_fetch",
        "web_search", "grep", "memory", "update_todos">>,
      <<"shell", "read_file">>,
      <<"grep", "custom_tool", "ls">> }

NoAnalysis ==
    [ isComplete |-> FALSE, isSpecific |-> FALSE, requiresMoreInfo |-> FALSE,
      suggestedToolCategories |-> <<>>, confidence |-> 0 ]
FilterCall(pc, input, analysis, tools, result) ==
    [pc |-> pc, input |-> input, analysis |-> analysis, tools |-> tools, result |-> result]
NoFilterCall == FilterCall("none", <<>>, NoAnalysis, <<>>, <<>>)

\* const analysis = filter.analyzeUserInput(input)
AnalyzeUserInput(input) ==
    /\ filterCall.pc = "none"
    /\ filterCall' = FilterCall("analyzed", input, AnalyzeUserInputResult(input), <<>>, <<>>)

\* filter.filterTools(tools, analysis)
FilterTools(tools) ==
    /\ filterCall.pc = "analyzed"
    /\ filterCall' = [filterCall EXCEPT
          !.pc = "filtered", !.tools = tools,
          !.result = FilterToolsResult(tools, filterCall.analysis)]

(***************************************************************************)
(*                  ConfigBuilder: validate() and build()                  *)
(***************************************************************************)

\* A value of a numeric parameter: a property that is not set, a number (in
\* tenths: Num(7) is 0.7, Num(10) is 1), or NaN.
Unset == [kind |-> "unset", value |-> 0]
NaN == [kind |-> "NaN", value |-> 0]
Num(tenths) == [kind |-> "number", value |-> tenths]

\* a < b and a > b of JavaScript: false when an operand is NaN.
Less(a, b) == a.kind = "number" /\ b.kind = "number" /\ a.value < b.value
Greater(a, b) == a.kind = "number" /\ b.kind = "number" /\ a.value > b.value

\* UnifiedConfig['defaultParameters'], the numeric parameters.
Parameters(temperature, topP, topK, maxTokens) ==
    [temperature |-> temperature, topP |-> topP, topK |-> topK, maxTokens |-> maxTokens]
NoParameters == Parameters(Unset, Unset, Unset, Unset)

\* The objects a caller passes to withDefaultParameters: one parameter each,
\* in range, at a border, out of range, or NaN.
ParameterObjects ==
    { Parameters(t, Unset, Unset, Unset) :
        t \in {Num(0 - 1), Num(0), Num(7), Num(10), Num(20), NaN} }
    \cup { Parameters(Unset, p, Unset, Unset) : p \in {Num(9), Num(11), NaN} }
    \cup { Parameters(Unset, Unset, k, Unset) : k \in {Num(0), Num(10), Num(400)} }
    \cup { Parameters(Unset, Unset, Unset, n) : n \in {Num(0 - 1000), Num(10), NaN} }

\* { ...this.config.defaultParameters, ...params }
SpreadParameters(old, params) ==
    [ k \in DOMAIN old |-> IF params[k].kind = "unset" THEN old[k] ELSE params[k] ]

\* The auth identities and model names a caller configures.
BuilderAuths ==
    AuthConfigs \cup {[provider |-> "openai", method |-> "openai-api-key", apiKey |-> "k3"]}
BuilderModels == {"deepseek-chat", "gpt-4", "invalid-model"}

\* this.modelManager.getModel(name) of the builder's own ModelManager, which
\* holds the default catalog.
BuilderGetModel(name) ==
    IF name \in DOMAIN DefaultModels THEN DefaultModels[name] ELSE Undefined

\* private config: Partial<UnifiedConfig> = {}, and the build() in progress:
\* pc is "none", "validating" (at `await authManager.validateConfig`),
\* "returned" or "threw".
ConfigBuilderState(auth, model, provider, defaultParameters, pc, errors, built) ==
    [ auth |-> auth, model |-> model, provider |-> provider,
      defaultParameters |-> defaultParameters,
      pc |-> pc, errors |-> errors, built |-> built ]
NoBuilt == [model |-> "", provider |-> "", defaultParameters |-> NoParameters]
NewConfigBuilder ==
    ConfigBuilderState(NoAuth, "", "", NoParameters, "none", {}, NoBuilt)

\* withAuth(auth)
WithAuth(auth) ==
    /\ builder.pc \in {"none", "validating"}
    /\ builder' = [builder EXCEPT !.auth = auth]

\* withModel(model, provider?): provider "" is an omitted argument.
WithModel(model, provider) ==
    /\ builder.pc \in {"none", "validating"}
    /\ builder' = [builder EXCEPT
          !.model = model,
          !.provider = IF provider # ""
                       THEN provider
                       ELSE IF BuilderGetModel(model) # Undefined
                            THEN BuilderGetModel(model).provider
                            ELSE @]

\* withDefaultParameters(params)
WithDefaultParameters(params) ==
    /\ builder.pc \in {"none", "validating"}
    /\ builder' = [builder EXCEPT
          !.defaultParameters = SpreadParameters(@, params)]

\* build() calls validate(), which runs to its `await validateConfig(auth)`
\* (without auth it does not await and build() runs to its end, see Build).
ValidationErrors(config, authSuccess) ==
    (IF config.auth = NoAuth
     THEN {"Authentication configuration is required"}
     ELSE IF ~authSuccess THEN {"Authentication validation failed"} ELSE {})
    \cup (IF config.model = ""
          THEN {"Model is required"}
          ELSE IF BuilderGetModel(config.model) = Undefined
               THEN {"Unknown model"}
               ELSE IF config.provider # ""
                       /\ BuilderGetModel(config.model).provider # config.provider
                    THEN {"Model belongs to another provider"}
                    ELSE {})
    \cup (IF /\ config.auth # NoAuth
             /\ config.model # ""
             /\ GetAvailableModels(DefaultModels, config.auth.provider) # {}
             /\ config.model \notin GetAvailableModels(DefaultModels, config.auth.provider)
          THEN {"Model is not available with the configured authentication"}
          ELSE {})
    \cup (LET params == config.defaultParameters IN
          (IF params.temperature.kind # "unset"
              /\ (Less(params.temperature, Num(0)) \/ Greater(params.temperature, Num(10)))
           THEN {"Temperature must be between 0 and 1"} ELSE {})
          \cup (IF params.topP.kind # "unset"
                   /\ (Less(params.topP, Num(0)) \/ Greater(params.topP, Num(10)))
                THEN {"TopP must be between 0 and 1"} ELSE {})
          \cup (IF params.topK.kind # "unset" /\ Less(params.topK, Num(10))
                THEN {"TopK must be at least 1"} ELSE {})
          \cup (IF params.maxTokens.kind # "unset" /\ Less(params.maxTokens, Num(10))
                THEN {"MaxTokens must be at least 1"} ELSE {}))

\* build() after `await this.validate()`: throw, or the config with defaults
\* ({ maxTokens: 1000, temperature: 0.7, ...this.config.defaultParameters }).
BuildEnd(config, authSuccess) ==
    LET errors == ValidationErrors(config, authSuccess) IN
    IF errors # {}
    THEN [config EXCEPT !.pc = "threw", !.errors = errors]
    ELSE [config EXCEPT
            !.pc = "returned",
            !.built =
               [ model |-> config.model,
                 provider |-> IF config.provider # "" THEN config.provider
                              ELSE BuilderGetModel(config.model).provider,
                 defaultParameters |->
                    SpreadParameters(Parameters(Num(7), Unset, Unset, Num(10000)),
                                     config.defaultParameters) ]]

\* build(), from the call to the await of validate(), or to its end when no
\* auth is configured.
Build ==
    /\ builder.pc = "none"
    /\ builder' = IF builder.auth = NoAuth
                  THEN BuildEnd(builder, FALSE)
                  ELSE [builder EXCEPT !.pc = "validating"]

\* `await this.authManager.validateConfig(this.config.auth)` settles and
\* build() runs to its end.
ValidateConfigReturn(authSuccess) ==
    /\ builder.pc = "validating"
    /\ builder' = BuildEnd(builder, authSuccess)

(***************************************************************************)
(* Initial values of the subsystems.                                       *)
(***************************************************************************)
InitRegistryVars ==
    /\ models = DefaultModels
    /\ clients = <<>>
    /\ adapters = <<>>
    /\ lastCall = NoCall
    /\ returned = {}

InitHookVars ==
    /\ streamingState = "Idle"
    /\ abortController = 0
    /\ controllers = <<>>
    /\ currentContent = <<>>
    /\ pendingHistoryItem = NullItem
    /\ hasActiveToolCalls = FALSE
    /\ history = <<>>
    /\ initError = ""
    /\ toolCalls = <<>>
    /\ queries = <<>>

InitTransportVars ==
    /\ response = "none"
    /\ timer = "unarmed"
    /\ body = <<>>
    /\ buffer = <<>>
    /\ lines = <<>>
    /\ tState = "idle"
    /\ tElems = <<>>
    /\ aState = "idle"
    /\ aChunks = <<>>
    /\ lineLog = <<>>

(***************************************************************************)
(* SpecRegistry: any interleaving of registerModel, createClient (split at *)
(* its await), and clearClientCache.                                       *)
(***************************************************************************)
InitAdapterVars == adapterCall = NoAdapterCall

InitFilterVars == filterCall = NoFilterCall
InitBuilderVars == builder = NewConfigBuilder

InitRegistry ==
    /\ InitRegistryVars /\ InitHookVars /\ InitTransportVars /\ InitAdapterVars
    /\ InitFilterVars /\ InitBuilderVars

\* A step of the ModelManager: the other subsystems do not move.
Registry(A) ==
    A /\ UNCHANGED <<hookVars, transportVars, adapterVars, filterVars, builderVars>>

NextRegistry ==
    \/ \E config \in RegisterableConfigs : Registry(RegisterModel(config))
    \/ \E m \in ModelNames, a \in AuthConfigs : Registry(CreateClient(m, a))
    \/ \E i \in DOMAIN adapters, isValid \in BOOLEAN : Registry(ValidateReturn(i, isValid))
    \/ Registry(ClearClientCache)

SpecRegistry == InitRegistry /\ [][NextRegistry]_vars

(***************************************************************************)
(* SpecHook: submitQuery invocations, user cancellations, stream chunks    *)
(* and tool completions of one useMultiModelStream hook, interleaved.      *)
(***************************************************************************)
\* A step of the hook: the other subsystems do not move.
Hook(A) ==
    A /\ UNCHANGED <<registryVars, transportVars, adapterVars, filterVars, builderVars>>

NextHook ==
    \/ \E isAt, shellMode, shellResult \in BOOLEAN :
          Hook(SubmitQuery(isAt, shellMode, shellResult))
    \/ \E q \in DOMAIN queries, shouldProceed, shellResult \in BOOLEAN :
          Hook(AtCommandReturn(q, shouldProceed, shellResult))
    \/ \E q \in DOMAIN queries : Hook(ShellDone(q))
    \/ Hook(AbortStreaming)
    \/ \E q \in DOMAIN queries : Hook(ClientReady(q))
    \/ \E q \in DOMAIN queries : Hook(ClientFailed(q))
    \/ \E q \in DOMAIN queries, chunk \in HookChunks : Hook(StreamChunk(q, chunk))
    \/ \E q \in DOMAIN queries : Hook(StreamEnd(q))
    \/ \E q \in DOMAIN queries : Hook(StreamError(q))
    \/ \E hasResult \in BOOLEAN : Hook(ToolsComplete(hasResult))

SpecHook == InitRegistry /\ [][NextHook]_vars

(***************************************************************************)
(* SpecAccum: one query whose stream delivers any sequence of AccumChunks. *)
(***************************************************************************)
NextAccum ==
    \/ (queries = <<>> /\ Hook(SubmitQuery(FALSE, FALSE, FALSE)))
    \/ \E q \in DOMAIN queries : Hook(ClientReady(q))
    \/ \E q \in DOMAIN queries, chunk \in AccumChunks : Hook(StreamChunk(q, chunk))
    \/ \E q \in DOMAIN queries : Hook(StreamEnd(q))

SpecAccum == InitRegistry /\ [][NextAccum]_vars

(***************************************************************************)
(* SpecTransport: one streaming request of an adapter, with any response   *)
(* and any sequence of body reads.                                         *)
(***************************************************************************)
Transport(A) ==
    A /\ UNCHANGED <<registryVars, hookVars, adapterVars, filterVars, builderVars>>

NextTransport ==
    \/ Transport(Fetch)
    \/ Transport(TimeoutFires)
    \/ \E outcome \in {"ok", "http-error", "no-body", "error"} :
          Transport(StartStream(outcome))
    \/ \E value \in Reads : Transport(ReadValue(value))
    \/ Transport(HandleLine)
    \/ Transport(ReadDone)
    \/ Transport(ReadError)

SpecTransport == InitRegistry /\ [][NextTransport]_vars

(***************************************************************************)
(* SpecAdapter: the operations of the four adapters, one at a time, on     *)
(* any request and with any answer of the network.                         *)
(***************************************************************************)
Adapter(A) ==
    A /\ UNCHANGED <<registryVars, hookVars, transportVars, filterVars, builderVars>>

\* The requests a caller may pass: a new operation starts when none is running.
RequestsNow == IF adapterCall.pc = "none" THEN Requests ELSE {}

NextAdapter ==
    \/ \E vendor \in Vendors, request \in RequestsNow :
          Adapter(GenerateContent(vendor, request))
    \/ \E vendor \in Vendors : Adapter(Validate(vendor))
    \/ \E vendor \in Vendors, request \in RequestsNow :
          Adapter(CountTokens(vendor, request))
    \/ \E vendor \in Vendors, op \in {"generateEmbeddings", "listModels"} :
          Adapter(Unsupported(vendor, op))
    \/ \E outcome \in FetchOutcomes, data \in ResponseDatas \cup {NoData} :
          Adapter(MakeRequestReturn(outcome, data))

SpecAdapter == InitRegistry /\ [][NextAdapter]_vars

(***************************************************************************)
(* SpecFilter: analyzeUserInput on any input, then filterTools on any of   *)
(* the tool lists.                                                         *)
(***************************************************************************)
Filter(A) ==
    A /\ UNCHANGED <<registryVars, hookVars, transportVars, adapterVars, builderVars>>

InputsNow == IF filterCall.pc = "none" THEN Inputs ELSE {}

NextFilter ==
    \/ \E input \in InputsNow : Filter(AnalyzeUserInput(input))
    \/ \E tools \in ToolLists : Filter(FilterTools(tools))

SpecFilter == InitRegistry /\ [][NextFilter]_vars

(***************************************************************************)
(* SpecConfig: a ConfigBuilder configured by any sequence of with...       *)
(* calls, and one build().                                                 *)
(***************************************************************************)
Config(A) ==
    A /\ UNCHANGED <<registryVars, hookVars, transportVars, adapterVars, filterVars>>

NextConfig ==
    \/ \E auth \in BuilderAuths : Config(WithAuth(auth))
    \/ \E model \in BuilderModels, provider \in {"", "deepseek", "qwen"} :
          Config(WithModel(model, provider))
    \/ \E params \in ParameterObjects : Config(WithDefaultParameters(params))
    \/ Config(Build)
    \/ \E authSuccess \in BOOLEAN : Config(ValidateConfigReturn(authSuccess))

SpecConfig == InitRegistry /\ [][NextConfig]_vars

(***************************************************************************)
(* Claims about the client cache (checked under SpecRegistry).             *)
(***************************************************************************)

\* C1: once createClient has returned an adapter for a key, every later
\* createClient for that key (no clearClientCache in between) returns that
\* same adapter and constructs/validates nothing.
C1_LaterCallsReturnSameInstance ==
    (lastCall.pc = "returned" /\ lastCall.seen # {}) =>
        /\ lastCall.seen = {lastCall.client}
        /\ ~lastCall.constructed
        /\ lastCall.netRequests = 0

\* C2: per key, at most one adapter is constructed (and validated) between
\* two evictions unless the earlier one was rejected, also with several
\* createClient calls in flight; all callers get the same instance.
C2_OneAdapterPerKey ==
    /\ \A i, j \in DOMAIN adapters :
          (i # j /\ adapters[i].key = adapters[j].key
               /\ adapters[i].live /\ adapters[j].live)
          => (adapters[i].valid = "false" \/ adapters[j].valid = "false")
    /\ \A p, q \in returned : p[1] = q[1] => p[2] = q[2]

\* C3: every cached adapter is one whose validate() returned true; a call
\* whose validate() returned false throws the validation error and its
\* adapter is not cached (so the key stays a cache miss unless another
\* validated adapter was stored), and no call ever hands out an adapter
\* that is not validated.
C3_OnlyValidatedAdaptersCached ==
    /\ \A k \in DOMAIN clients : adapters[clients[k]].valid = "true"
    /\ \A i \in DOMAIN adapters :
          adapters[i].valid = "false" => \A k \in DOMAIN clients : clients[k] # i
    /\ (lastCall.pc = "returned") => adapters[lastCall.client].valid = "true"
    /\ (lastCall.client # 0 /\ adapters[lastCall.client].valid = "false") =>
          /\ lastCall.pc = "threw"
          /\ lastCall.error = "Failed to validate model client"

\* C3 witness: a validation has failed, and a later createClient for the same
\* key has constructed and validated a second adapter, which is now cached.
C3_Witness ==
    \E i, j \in DOMAIN adapters :
        /\ i < j
        /\ adapters[i].key = adapters[j].key
        /\ adapters[i].valid = "false"
        /\ adapters[j].valid = "true"
        /\ adapters[i].key \in DOMAIN clients
        /\ clients[adapters[i].key] = j

\* C4: createClient for a name that is not in the catalog throws "Unknown
\* model", constructs no adapter, issues no network request and leaves the
\* cache as it was.
C4_UnknownModelFailsEarly ==
    [][ \A m \in ModelNames, a \in AuthConfigs :
          (CreateClient(m, a) /\ m \notin DOMAIN models) =>
             /\ lastCall'.pc = "threw"
             /\ lastCall'.error = "Unknown model"
             /\ lastCall'.client = 0
             /\ ~lastCall'.constructed
             /\ lastCall'.netRequests = 0
             /\ adapters' = adapters
             /\ clients' = clients ]_vars

\* C4 witness: a call for an unknown name has thrown while the cache was
\* not empty.
C4_Witness ==
    /\ lastCall.pc = "threw"
    /\ lastCall.error = "Unknown model"
    /\ ~lastCall.known
    /\ clients # <<>>

(***************************************************************************)
(* Claims about submitQuery / abortStreaming (checked under SpecHook).     *)
(***************************************************************************)

\* C5: once the user has cancelled a streaming request (its controller is
\* aborted), the loop of that request processes no further chunk: its
\* accumulated tool calls and its processed chunks stay as they are, and
\* no chunk of it changes the streamed content.
C5_NoChunkConsumedAfterCancel ==
    [][ \A q \in DOMAIN queries :
          (queries[q].ctrl # 0 /\ controllers[queries[q].ctrl]) =>
             /\ queries'[q].consumed = queries[q].consumed
             /\ queries'[q].toolCallsMap = queries[q].toolCallsMap ]_vars

\* C6: at most one streaming generation call of the hook is in progress at
\* any time.
C6_AtMostOneStreamInProgress ==
    Cardinality({ q \in DOMAIN queries : queries[q].pc = "streaming" }) <= 1

\* C30: submitQuery never reads the signal of a missing abort controller:
\* neither the @-command nor the shell-command path throws the TypeError of
\* `abortController.current!.signal`, and scheduling the tool calls never
\* fails on `abortController.current.signal`.
C30_SignalReadOnlyWithController ==
    /\ \A q \in DOMAIN queries : queries[q].error # "TypeError"
    /\ \A i \in DOMAIN history :
          history[i] # Item("error", <<"Failed to schedule tool calls">>, <<>>)

\* C24: in the messages of a request built from the history, every
\* tool-result message carries the id of a tool call of an earlier assistant
\* message of the request, and the tool_result block the Anthropic adapter
\* builds for it references that id.
C24_ToolResultsReferenceEarlierCall ==
    \A q \in DOMAIN queries :
        LET messages == queries[q].messages IN
        \A i \in DOMAIN messages :
            messages[i].role = "tool" =>
               /\ \E j \in 1 .. (i - 1) :
                     /\ messages[j].role = "assistant"
                     /\ \E k \in DOMAIN messages[j].tool_calls :
                           messages[j].tool_calls[k].id = messages[i].tool_call_id
               /\ AnthropicTurn(messages[i]).content[1].type = "tool_result"
               /\ AnthropicTurn(messages[i]).content[1].id = messages[i].tool_call_id

(***************************************************************************)
(* Claims about the tool-call accumulation (checked under SpecAccum).      *)
(***************************************************************************)

\* The tool-call fragments of the chunks a loop has processed, in arrival order.
RECURSIVE FragmentsOf(_)
FragmentsOf(chunks) ==
    IF chunks = <<>> THEN <<>> ELSE Head(chunks).toolCalls \o FragmentsOf(Tail(chunks))

\* The argument text of the fragments that carry this id, concatenated in order.
RECURSIVE ArgsWithId(_, _)
ArgsWithId(frags, id) ==
    IF frags = <<>>
    THEN <<>>
    ELSE (IF Head(frags).id = id THEN Head(frags).arguments ELSE <<>>)
         \o ArgsWithId(Tail(frags), id)

FragmentIds(frags) == { frags[k].id : k \in DOMAIN frags } \ {""}

AllCarryId(frags) == \A k \in DOMAIN frags : frags[k].id # ""

\* C7: in a stream whose tool-call fragments all carry an id, when the loop
\* has ended there is exactly one record per distinct id, and its argument
\* text is the concatenation, in arrival order, of the fragments of that id.
C7_OneRecordPerIdConcatenated ==
    \A q \in DOMAIN queries :
        LET frags == FragmentsOf(queries[q].consumed)
            map == queries[q].toolCallsMap
        IN (queries[q].pc = "done" /\ AllCarryId(frags)) =>
              /\ \A i, j \in DOMAIN map : i # j => map[i].id # map[j].id
              /\ { map[i].id : i \in DOMAIN map } = FragmentIds(frags)
              /\ \A i \in DOMAIN map : map[i].arguments = ArgsWithId(frags, map[i].id)

\* C7 witness: a finished stream, all fragments with ids, two distinct ids,
\* and one id with two fragments that both carry argument text.
C7_Witness ==
    \E q \in DOMAIN queries :
        LET frags == FragmentsOf(queries[q].consumed) IN
        /\ queries[q].pc = "done"
        /\ AllCarryId(frags)
        /\ Cardinality(FragmentIds(frags)) = 2
        /\ \E j, k \in DOMAIN frags :
              /\ j < k
              /\ frags[j].id = frags[k].id
              /\ frags[j].arguments # <<>>
              /\ frags[k].arguments # <<>>

\* Positions before k at which a record was opened (first fragment of an id).
OpenedBefore(frags, k) ==
    { j \in 1 .. (k - 1) :
        frags[j].id # "" /\ \A h \in 1 .. (j - 1) : frags[h].id # frags[j].id }

SetMax(S) == CHOOSE x \in S : \A y \in S : y <= x

\* The id whose record receives fragment k: its own id, or for a fragment
\* without id the id that was opened last ("" when no record is open).
Owner(frags, k) ==
    IF frags[k].id # ""
    THEN frags[k].id
    ELSE IF OpenedBefore(frags, k) = {}
         THEN ""
         ELSE frags[SetMax(OpenedBefore(frags, k))].id

\* The id of the latest fragment before k that carried an id ("" if none).
LastUpdated(frags, k) ==
    LET withId == { j \in 1 .. (k - 1) : frags[j].id # "" } IN
    IF withId = {} THEN "" ELSE frags[SetMax(withId)].id

RECURSIVE OwnedArgs(_, _, _)
OwnedArgs(frags, id, k) ==
    IF k > Len(frags)
    THEN <<>>
    ELSE (IF Owner(frags, k) = id THEN frags[k].arguments ELSE <<>>)
         \o OwnedArgs(frags, id, k + 1)

\* C8: the argument text of a fragment without id is appended to the record
\* opened most recently (not to the one updated most recently), whatever the
\* interleaving of the fragments of the open calls: every record's text is
\* the concatenation of its own fragments and of the id-less fragments that
\* arrived while it was the latest record opened.
C8_ContinuationGoesToLastOpened ==
    \A q \in DOMAIN queries :
        LET frags == FragmentsOf(queries[q].consumed)
            map == queries[q].toolCallsMap
        IN queries[q].pc = "done" =>
              \A i \in DOMAIN map : map[i].arguments = OwnedArgs(frags, map[i].id, 1)

\* C8 witness: a finished stream with an id-less fragment carrying text that
\* arrived when the record updated last was not the record opened last.
C8_Witness ==
    \E q \in DOMAIN queries :
        LET frags == FragmentsOf(queries[q].consumed) IN
        /\ queries[q].pc = "done"
        /\ \E k \in DOMAIN frags :
              /\ frags[k].id = ""
              /\ frags[k].arguments # <<>>
              /\ Owner(frags, k) # ""
              /\ Owner(frags, k) # LastUpdated(frags, k)

\* C9: when the loop has ended every record has its tool-call request, in
\* order; a record whose text JSON.parse rejects is surfaced with the raw
\* text as args.content, and the other records keep their parsed arguments
\* (a record without any text is surfaced with empty args).
C9_UnparsableCallStillSurfaced ==
    \A q \in DOMAIN queries :
        LET map == queries[q].toolCallsMap
            reqs == queries[q].toolCallRequests
        IN queries[q].pc = "done" =>
              /\ Len(reqs) = Len(map)
              /\ \A i \in DOMAIN map :
                    /\ reqs[i].callId = map[i].id
                    /\ (map[i].arguments # <<>> /\ ~IsValidJSON(map[i].arguments)) =>
                          reqs[i].args = [kind |-> "content", text |-> map[i].arguments]
                    /\ IsValidJSON(map[i].arguments) =>
                          reqs[i].args = [kind |-> "json", text |-> map[i].arguments]
                    /\ map[i].arguments = <<>> => reqs[i].args.kind = "empty"

\* C9 witness: a finished stream with a record whose text does not parse and
\* another record whose text parses, both surfaced.
C9_Witness ==
    \E q \in DOMAIN queries :
        LET map == queries[q].toolCallsMap
            reqs == queries[q].toolCallRequests
        IN /\ queries[q].pc = "done"
           /\ Len(reqs) = Len(map)
           /\ \E i, j \in DOMAIN map :
                 /\ map[i].arguments # <<>>
                 /\ ~IsValidJSON(map[i].arguments)
                 /\ reqs[i].args.kind = "content"
                 /\ IsValidJSON(map[j].arguments)
                 /\ reqs[j].args.kind = "json"

\* The distinct ids of the fragments, in the order of their first appearance.
RECURSIVE FirstSeen(_, _)
FirstSeen(frags, seen) ==
    IF frags = <<>>
    THEN <<>>
    ELSE LET id == Head(frags).id IN
         IF id = "" \/ id \in seen
         THEN FirstSeen(Tail(frags), seen)
         ELSE <<id>> \o FirstSeen(Tail(frags), seen \cup {id})

\* C23: the tool-call requests handed to the scheduler after a stream are
\* one per distinct tool-call id seen in the stream, in the order in which
\* the ids were first seen, with pairwise distinct call ids.
C23_OneRequestPerIdInFirstSeenOrder ==
    \A q \in DOMAIN queries :
        LET frags == FragmentsOf(queries[q].consumed)
            reqs == queries[q].toolCallRequests
        IN (queries[q].pc = "done" /\ queries[q].scheduled) =>
              /\ toolCalls = reqs
              /\ [i \in DOMAIN reqs |-> reqs[i].callId] = FirstSeen(frags, {})
              /\ \A i, j \in DOMAIN reqs : i # j => reqs[i].callId # reqs[j].callId

\* C23 witness: scheduled requests of a stream in which an id came back
\* after another id had been seen.
C23_Witness ==
    \E q \in DOMAIN queries :
        LET frags == FragmentsOf(queries[q].consumed) IN
        /\ queries[q].pc = "done"
        /\ queries[q].scheduled
        /\ Len(toolCalls) = 2
        /\ \E h, j, k \in DOMAIN frags :
              /\ h < j /\ j < k
              /\ frags[h].id = "a" /\ frags[j].id = "b" /\ frags[k].id = "a"

(***************************************************************************)
(* Claims about the streaming transport (checked under SpecTransport).     *)
(***************************************************************************)

\* C10: a data line that is not valid JSON does not end the stream a caller
\* receives from the adapter: the adapter's stream never fails on the
\* degraded element of a malformed line, so the chunks of the following
\* well-formed lines are still delivered.
C10_MalformedLineDoesNotEndStream ==
    ~(aState = "threw" /\ tElems # <<>> /\ tElems[Len(tElems)].error = "parse-error")

\* C11: the element sequence of makeStreamingRequest holds at most one
\* terminal (done) element, that element is the last one, and it is present
\* exactly when reader.read() reported the end of the body (no connection
\* error, no abort, no early close by the consumer).
C11_OneTerminalElementLastIffBodyEnded ==
    LET dones == {i \in DOMAIN tElems : tElems[i].done} IN
    /\ Cardinality(dones) <= 1
    /\ \A i \in dones : i = Len(tElems)
    /\ (dones # {}) <=> (tState = "ended")

\* A body with a data line and the sentinel was read to its end: the data
\* element is followed by the terminal element.
C11_Witness ==
    /\ tState = "ended"
    /\ <<DataPrefix, DoneSentinel>> \in {lineLog[i] : i \in DOMAIN lineLog}
    /\ Len(tElems) >= 2
    /\ tElems[Len(tElems)].done
    /\ tElems[1].success /\ ~tElems[1].done

\* C12: when the initial response has a non-success status or no readable
\* body, the element sequence is exactly one error element: no data element
\* and no terminal element, and the generator has finished.
C12_FailedResponseYieldsOneErrorElement ==
    response \in {"http-error", "no-body"} =>
        /\ tElems = <<Element(FALSE, <<>>, response, FALSE)>>
        /\ tState = "closed"
        /\ body = <<>>

C12_Witness ==
    /\ response = "no-body"
    /\ Len(tElems) = 1
    /\ ~tElems[1].success
    /\ aState = "threw"

\* C13: as long as a part of the response (headers or body) is still
\* awaited, the 30 s self-cancellation timer is armed.
C13_TimerArmedWhileResponseAwaited ==
    tState \in {"fetching", "reading"} => timer = "armed"

\* The bytes of the body received so far: the reads, concatenated.
RECURSIVE Concat(_)
Concat(reads) == IF reads = <<>> THEN <<>> ELSE Head(reads) \o Concat(Tail(reads))

\* The elements a sequence of complete lines stands for, in order.
RECURSIVE ElementsOfLines(_)
ElementsOfLines(ls) ==
    IF ls = <<>>
    THEN <<>>
    ELSE (CASE LineElement(Head(ls)) = "data" ->
                 <<Element(TRUE, Tail(Head(ls)), "", FALSE)>>
            [] LineElement(Head(ls)) = "parse-error" ->
                 <<Element(FALSE, <<>>, "parse-error", FALSE)>>
            [] OTHER -> <<>>)
         \o ElementsOfLines(Tail(ls))

\* C25: the elements produced for the body depend only on its bytes, not on
\* the reads they arrive in: the lines handled and still to handle are the
\* complete lines of the concatenated reads, the buffer is the text after
\* their last newline, and the line elements produced are those of the
\* handled lines, one per data line, in order.
C25_ElementsDependOnBytesOnly ==
    LET parts == Split(Concat(body), <<>>)
        lineElems == SelectSeq(tElems,
                        LAMBDA e : (e.success /\ ~e.done) \/ e.error = "parse-error")
    IN
    /\ lineLog \o lines = SubSeq(parts, 1, Len(parts) - 1)
    /\ buffer = parts[Len(parts)]
    /\ lineElems = ElementsOfLines(lineLog)

\* A data line arrived in two reads, split after its prefix, after a whole
\* line in one read, and gave one data element in second position.
C25_Witness ==
    /\ body = << <<DataPrefix, GoodOther, NL>>, <<DataPrefix>>, <<GoodDelta, NL>> >>
    /\ tElems = <<Element(TRUE, <<GoodOther>>, "", FALSE),
                  Element(TRUE, <<GoodDelta>>, "", FALSE)>>

(***************************************************************************)
(* Claims about the adapters (checked under SpecAdapter) and the gateway.  *)
(***************************************************************************)

\* C14: every failure of an adapter's generateContent reaches the caller as
\* an error whose message is '<Vendor> API failed: <cause>'; no error of
\* another form escapes, for every adapter.
C14_GenerateFailuresAreVendorQualified ==
    (adapterCall.op = "generateContent" /\ adapterCall.pc = "threw") =>
        /\ Len(adapterCall.error) >= 3
        /\ adapterCall.error[1] = VendorName(adapterCall.vendor)
        /\ adapterCall.error[2] = " API failed: "

\* C15: whenever createClient fails because the model name is unknown or
\* because the model's vendor differs from the auth identity's provider, the
\* call has issued no network request.
C15_ValidationFailuresIssueNoRequest ==
    LET mismatch ==
          /\ lastCall.client # 0
          /\ adapters[lastCall.client].config.provider # lastCall.authConfig.provider
    IN  (lastCall.pc = "threw" /\ (~lastCall.known \/ mismatch)) =>
            lastCall.netRequests = 0

\* C16: validate() never throws; it issues one generate call and returns
\* true exactly when that call returned a response, so false for every
\* failure of the call.
C16_ValidateNeverThrows ==
    (adapterCall.op = "validate" /\ adapterCall.pc # "awaiting") =>
        /\ adapterCall.pc = "returned"
        /\ adapterCall.netRequests = 1
        /\ adapterCall.result.valid <=> (adapterCall.inner = "returned")
        /\ adapterCall.outcome # "ok" => ~adapterCall.result.valid

\* The generate call of validate() failed and validate() returned false.
C16_Witness ==
    /\ adapterCall.op = "validate"
    /\ adapterCall.outcome = "http-error"
    /\ adapterCall.inner = "threw"
    /\ adapterCall.pc = "returned"
    /\ ~adapterCall.result.valid

\* sub occurs in text as a contiguous piece
Contains(text, sub) ==
    \E k \in 0 .. (Len(text) - Len(sub)) : SubSeq(text, k + 1, k + Len(sub)) = sub

\* C17: for the Google adapter, the text of every system-role message of the
\* request is in the body's system-instruction field, and no turn of
\* contents has the system role.
C17_GoogleSystemMessagesInSystemInstruction ==
    LET c == adapterCall IN
    (c.vendor = "google" /\ c.op = "generateContent" /\ ~c.body.threw) =>
        /\ \A i \in DOMAIN c.request.messages :
              c.request.messages[i].role = "system" =>
                 /\ c.body.hasSystem
                 /\ Contains(c.body.system,
                             ExtractTextFromContent(c.request.messages[i].content))
        /\ \A k \in DOMAIN c.body.turns : c.body.turns[k].role # "system"

\* The texts a message carries, and the texts a turn carries, in order.
TextsOfMessage(message) ==
    IF message.content.kind = "string"
    THEN <<message.content.text>>
    ELSE LET texts == SelectSeq(message.content.parts, LAMBDA p : p.type = "text")
         IN  [i \in DOMAIN texts |-> texts[i].text]
TextsOfTurn(turn) ==
    LET texts == SelectSeq(turn.content,
                           LAMBDA b : b.type \in {"text", "string", "tool_result"})
    IN  [i \in DOMAIN texts |-> texts[i].text]

\* C18: the turns of the vendor body are the request's messages in the same
\* order; Google and Anthropic remove the system-role messages and nothing
\* else, Anthropic joins their text with newlines into the system field, and
\* the OpenAI-compatible adapters keep every message with its role unchanged.
C18_TurnsKeepOrderAndRoles ==
    LET c == adapterCall
        native == c.vendor \in {"google", "anthropic"}
        kept == IF native THEN SelectSeq(c.request.messages, NotSystem)
                ELSE c.request.messages
        systems == SelectSeq(c.request.messages, IsSystem)
    IN
    (c.op = "generateContent" /\ ~c.body.threw) =>
        /\ Len(c.body.turns) = Len(kept)
        /\ \A i \in DOMAIN kept : TextsOfTurn(c.body.turns[i]) = TextsOfMessage(kept[i])
        /\ (c.vendor = "anthropic" /\ systems # <<>>) =>
              c.body.system =
                 JoinNL([i \in DOMAIN systems |-> TextOfMessage(systems[i])])
        /\ ~native => \A i \in DOMAIN kept : c.body.turns[i].role = kept[i].role

\* The finish-reason tables of section 4.3, as pairs <<vendor code, canonical>>.
FinishTable(vendor) ==
    CASE vendor = "google" ->
           { <<"STOP", "stop">>, <<"MAX_TOKENS", "length">>,
             <<"SAFETY", "content_filter">>, <<"RECITATION", "content_filter">> }
      [] vendor = "anthropic" ->
           { <<"end_turn", "stop">>, <<"stop_sequence", "stop">>,
             <<"max_tokens", "length">>, <<"tool_use", "tool_calls">> }
      [] OTHER ->
           { <<"stop", "stop">>, <<"length", "length">>,
             <<"tool_calls", "tool_calls">>, <<"content_filter", "content_filter">> }

\* C19: the finish reason of a response is the table's entry for the vendor
\* code, and null for every other code and for a missing code; mapping the
\* code never makes the call fail.
C19_FinishReasonFollowsTable ==
    LET c == adapterCall IN
    (c.op = "generateContent" /\ c.outcome = "ok" /\ c.data.shape = "complete") =>
        /\ c.pc = "returned"
        /\ \A pair \in FinishTable(c.vendor) :
              c.data.finishReason = pair[1] => c.result.finishReason = pair[2]
        /\ (\A pair \in FinishTable(c.vendor) : c.data.finishReason # pair[1]) =>
              c.result.finishReason = "null"

\* A response with a code of another vendor's table came back as null.
C19_Witness ==
    /\ adapterCall.op = "generateContent"
    /\ adapterCall.vendor = "anthropic"
    /\ adapterCall.pc = "returned"
    /\ adapterCall.data = ResponseData("complete", "STOP")
    /\ adapterCall.result.finishReason = "null"

\* The length of the request's text: the characters of every text, one
\* newline between the texts of a message and one between messages.
RECURSIVE SumLen(_)
SumLen(texts) == IF texts = <<>> THEN 0 ELSE Len(Head(texts)) + SumLen(Tail(texts))
MessageLength(message) ==
    IF message.content.kind = "string"
    THEN Len(message.content.text)
    ELSE LET texts == SelectSeq(TextsOfMessage(message), LAMBDA t : t # <<>>)
         IN  SumLen(texts) + (IF texts = <<>> THEN 0 ELSE Len(texts) - 1)
RECURSIVE TextLength(_)
TextLength(messages) ==
    IF messages = <<>> THEN 0
    ELSE MessageLength(Head(messages))
         + (IF Len(messages) > 1 THEN 1 + TextLength(Tail(messages)) ELSE 0)

\* C20: countTokens of the Anthropic, DeepSeek and Qwen adapters returns
\* ceil(L/4) for a request text of length L, as promptTokens and as
\* totalTokens, marked as estimated, without a network request.
C20_TokenEstimateIsCeilOfQuarter ==
    LET c == adapterCall
        L == TextLength(c.request.messages)
    IN
    (c.op = "countTokens" /\ c.vendor # "google") =>
        /\ c.pc = "returned"
        /\ c.netRequests = 0
        /\ c.result.estimated
        /\ c.result.promptTokens = c.result.totalTokens
        /\ 4 * c.result.totalTokens >= L
        /\ 4 * (c.result.totalTokens - 1) < L

\* A multipart message (texts "ab" and "c": 4 characters with the newline)
\* and a second message: L is between 9 and 11, the estimate is rounded up
\* to 3.
C20_Witness ==
    /\ adapterCall.op = "countTokens"
    /\ adapterCall.vendor = "qwen"
    /\ Len(adapterCall.request.messages) = 2
    /\ adapterCall.request.messages[1].content.kind = "parts"
    /\ TextLength(adapterCall.request.messages) % 4 # 0
    /\ adapterCall.result.totalTokens = 3

(***************************************************************************)
(* Further claims about the ModelManager (checked under SpecRegistry).     *)
(***************************************************************************)

\* C22: once a model name is in the catalog, the configuration getModel
\* returns for it never changes, and the config held by a cached adapter
\* equals the catalog's entry for its model.
C22_CatalogEntriesNeverChange ==
    /\ [][\A m \in DOMAIN models :
             m \in DOMAIN models' /\ models'[m] = models[m]]_vars
    /\ [](\A key \in DOMAIN clients :
             adapters[clients[key]].config = GetModel(adapters[clients[key]].modelName))

\* C27: the adapter createClient(model, auth) returns is bound to the
\* credential of the auth identity passed to that call.
C27_ReturnedAdapterUsesCallersCredential ==
    lastCall.pc = "returned" =>
        adapters[lastCall.client].authConfig = lastCall.authConfig

\* C28: no adapter constructed before a clearClientCache is in the cache
\* after it, even when its createClient was awaiting validation at the clear.
C28_NoAdapterFromBeforeClearIsCached ==
    \A key \in DOMAIN clients : adapters[clients[key]].live

\* C29: createClient for a catalogued model (one that getAvailableModels
\* returns for some auth identity) never fails with 'Unsupported model
\* provider'.
C29_CataloguedModelsAreSupported ==
    (/\ lastCall.known
     /\ \E p \in AuthProviders : lastCall.modelName \in GetAvailableModels(models, p))
    => lastCall.error # "Unsupported model provider"

(***************************************************************************)
(* Claims about the SmartToolFilter (checked under SpecFilter).            *)
(***************************************************************************)

\* C26: for an input that matches no tool category, filterTools on the
\* result of analyzeUserInput returns the basic tools among the given tools;
\* it returns no tool of a list that has some to offer only when a category
\* matched and the input lacks the information the category requires.
C26_NoCategoryGetsBasicTools ==
    LET c == filterCall IN
    c.pc = "filtered" =>
        /\ c.analysis.suggestedToolCategories = <<>> =>
              c.result = GetBasicTools(c.tools)
        /\ (c.result = <<>> /\ GetBasicTools(c.tools) # <<>>) =>
              /\ c.analysis.suggestedToolCategories # <<>>
              /\ c.analysis.requiresMoreInfo

(***************************************************************************)
(* Claims about the ConfigBuilder (checked under SpecConfig).              *)
(***************************************************************************)

\* v is not set, or a number between lo and hi (in tenths)
UnsetOrWithin(v, lo, hi) ==
    v.kind = "unset" \/ (v.kind = "number" /\ lo <= v.value /\ v.value <= hi)
UnsetOrAtLeast(v, lo) ==
    v.kind = "unset" \/ (v.kind = "number" /\ lo <= v.value)

\* C21: build() returns a configuration only when temperature and topP, if
\* set, are within [0, 1], topK and maxTokens, if set, are at least 1, and
\* the model is in the catalog; otherwise it throws.
C21_BuildReturnsOnlyValidConfigurations ==
    LET params == builder.defaultParameters IN
    builder.pc = "returned" =>
        /\ UnsetOrWithin(params.temperature, 0, 10)
        /\ UnsetOrWithin(params.topP, 0, 10)
        /\ UnsetOrAtLeast(params.topK, 10)
        /\ UnsetOrAtLeast(params.maxTokens, 10)
        /\ builder.model \in DOMAIN DefaultModels

====
